---- MODULE Spec2Model ----
(***************************************************************************)
(* A model of src/1a.py: PDFHeadingExtractor (header/footer census, line   *)
(* feature extraction, heading scoring, candidate selection, multi-line    *)
(* merging, level classification, title extraction) and the batch loop of  *)
(* main().                                                                 *)
(*                                                                         *)
(* Conventions of the model.                                               *)
(*  - Texts are strings over ASCII; a character is a string of length 1.   *)
(*  - Coordinates and font sizes are integers (PDF points).  The code's    *)
(*    float comparisons against decimal factors (x * 0.06, y >= z * 1.8)   *)
(*    are evaluated exactly, by cross-multiplication.                      *)
(*  - The document mean font size is the rational num/den.                 *)
(*  - Regular expressions are syntax trees, matched by Ends, which         *)
(*    returns every end position of a match: re.match and re.search are    *)
(*    decided exactly for the expressions of the source (none uses a       *)
(*    back-reference).                                                     *)
(***************************************************************************)
EXTENDS Integers, Sequences, FiniteSets, TLC

(***************************************************************************)
(* Characters and strings (Python str methods used by the source)          *)
(***************************************************************************)
UpperChars == "ABCDEFGHIJKLMNOPQRSTUVWXYZ"
LowerChars == "abcdefghijklmnopqrstuvwxyz"
DigitChars == "0123456789"

CharSet(s) == {SubSeq(s, i, i) : i \in 1..Len(s)}

UpperAZ == CharSet(UpperChars)
LowerAZ == CharSet(LowerChars)
Letters == UpperAZ \cup LowerAZ
Digits == CharSet(DigitChars)
\* \s of the re module, over the characters a TLA+ string can hold
WS == {" ", "\t", "\n", "\r", "\f"}
\* \w of the re module (ASCII part)
WordChars == Letters \cup Digits \cup {"_"}

LowerMap == [c \in UpperAZ |-> LET i == CHOOSE k \in 1..26 : SubSeq(UpperChars, k, k) = c
                               IN SubSeq(LowerChars, i, i)]
UpperMap == [c \in LowerAZ |-> LET i == CHOOSE k \in 1..26 : SubSeq(LowerChars, k, k) = c
                               IN SubSeq(UpperChars, i, i)]

ToLowerChar(c) == IF c \in UpperAZ THEN LowerMap[c] ELSE c
ToUpperChar(c) == IF c \in LowerAZ THEN UpperMap[c] ELSE c

CharAt(s, i) == SubSeq(s, i, i)

RECURSIVE StrLower(_)
\* str.lower()
StrLower(s) == IF Len(s) = 0 THEN "" ELSE ToLowerChar(CharAt(s, 1)) \o StrLower(Tail(s))

RECURSIVE LStrip(_)
LStrip(s) == IF Len(s) > 0 /\ CharAt(s, 1) \in WS THEN LStrip(Tail(s)) ELSE s

RECURSIVE RStrip(_)
RStrip(s) == IF Len(s) > 0 /\ CharAt(s, Len(s)) \in WS
             THEN RStrip(SubSeq(s, 1, Len(s) - 1)) ELSE s

\* str.strip()
Strip(s) == RStrip(LStrip(s))

\* str.endswith(c) for a single character c
EndsWithChar(s, c) == Len(s) > 0 /\ CharAt(s, Len(s)) = c

\* len(str.split()): the number of maximal runs of non-whitespace characters
WordCount(s) ==
    Cardinality({i \in 1..Len(s) :
        /\ CharAt(s, i) \notin WS
        /\ (i = 1 \/ CharAt(s, i - 1) \in WS)})

\* sum(1 for c in s if c.isupper())
UpperCount(s) == Cardinality({i \in 1..Len(s) : CharAt(s, i) \in UpperAZ})

\* sub in s
Contains(s, sub) ==
    \E i \in 1..(Len(s) - Len(sub) + 1) : SubSeq(s, i, i + Len(sub) - 1) = sub

\* str.istitle(): at least one cased character, an uppercase character only
\* after an uncased one, a lowercase character only after a cased one
IsTitle(s) ==
    /\ \E i \in 1..Len(s) : CharAt(s, i) \in Letters
    /\ \A i \in 1..Len(s) :
          LET prevCased == i > 1 /\ CharAt(s, i - 1) \in Letters
          IN /\ (CharAt(s, i) \in UpperAZ => ~prevCased)
             /\ (CharAt(s, i) \in LowerAZ => prevCased)

RECURSIVE CollapseWS(_)
\* re.sub(r'\s+', ' ', s)
CollapseWS(s) ==
    IF Len(s) = 0 THEN ""
    ELSE IF CharAt(s, 1) \in WS
         THEN " " \o CollapseWS(LStrip(s))
         ELSE CharAt(s, 1) \o CollapseWS(Tail(s))

\* round(p / q, 2) in hundredths, ties to even (p >= 0, q > 0)
Round2(p, q) ==
    LET n == 100 * p
        f == n \div q
        r == n - f * q
    IN IF 2 * r > q THEN f + 1
       ELSE IF 2 * r < q THEN f
       ELSE IF f % 2 = 0 THEN f ELSE f + 1

Max2(a, b) == IF a >= b THEN a ELSE b
Min2(a, b) == IF a <= b THEN a ELSE b
Abs(a) == IF a >= 0 THEN a ELSE -a

(***************************************************************************)
(* Regular expressions                                                     *)
(***************************************************************************)
Chr(S) == <<"chr", S>>
AnyChar == <<"any">>
Str(x) == <<"str", x>>
Cat(l) == <<"seq", l>>
Alt(l) == <<"alt", l>>
Opt(r) == <<"opt", r>>
Star(r) == <<"star", r>>
Plus(r) == <<"plus", r>>
Rep(r, m, n) == <<"rep", r, m, n>>
AtLeast(r, m) == <<"seq", <<Rep(r, m, m), Star(r)>>>>
Bol == <<"bol">>
Eol == <<"eol">>
NotAfter(S) == <<"nlb", S>>

RECURSIVE LowerRe(_)
\* the expression that matches the lower-cased text exactly when re, compiled
\* with re.IGNORECASE, matches the text (ASCII letters)
LowerRe(re) ==
    CASE re[1] = "chr" -> <<"chr", {ToLowerChar(c) : c \in re[2]}>>
      [] re[1] = "str" -> <<"str", StrLower(re[2])>>
      [] re[1] = "seq" -> <<"seq", [k \in 1..Len(re[2]) |-> LowerRe(re[2][k])]>>
      [] re[1] = "alt" -> <<"alt", [k \in 1..Len(re[2]) |-> LowerRe(re[2][k])]>>
      [] re[1] \in {"opt", "star", "plus"} -> <<re[1], LowerRe(re[2])>>
      [] re[1] = "rep" -> <<"rep", LowerRe(re[2]), re[3], re[4]>>
      [] re[1] = "nlb" -> <<"nlb", {ToLowerChar(c) : c \in re[2]}>>
      [] OTHER -> re

RECURSIVE Ends(_, _, _)
RECURSIVE EndsSeq(_, _, _, _)
RECURSIVE EndsRep(_, _, _, _)
RECURSIVE EndsUpTo(_, _, _, _)
RECURSIVE Closure(_, _, _)

\* The end positions of the matches of re in s that start at a position of I
\* (positions 1..Len(s)+1).
Ends(re, s, I) ==
    IF I = {} THEN {}
    ELSE CASE re[1] = "chr" ->
                {i + 1 : i \in {j \in I : j <= Len(s) /\ CharAt(s, j) \in re[2]}}
           [] re[1] = "any" ->
                {i + 1 : i \in {j \in I : j <= Len(s) /\ CharAt(s, j) # "\n"}}
           [] re[1] = "str" ->
                {i + Len(re[2]) : i \in {j \in I :
                    /\ j + Len(re[2]) - 1 <= Len(s)
                    /\ SubSeq(s, j, j + Len(re[2]) - 1) = re[2]}}
           [] re[1] = "seq" -> EndsSeq(re[2], 1, s, I)
           [] re[1] = "alt" -> UNION {Ends(re[2][k], s, I) : k \in 1..Len(re[2])}
           [] re[1] = "opt" -> I \cup Ends(re[2], s, I)
           [] re[1] = "star" -> Closure(re[2], s, I)
           [] re[1] = "plus" -> Closure(re[2], s, Ends(re[2], s, I))
           [] re[1] = "rep" ->
                EndsUpTo(re[2], re[4] - re[3], s, EndsRep(re[2], re[3], s, I))
           [] re[1] = "bol" -> I \cap {1}
           [] re[1] = "eol" -> I \cap {Len(s) + 1}
           [] re[1] = "nlb" -> {i \in I : i = 1 \/ CharAt(s, i - 1) \notin re[2]}

EndsSeq(l, k, s, I) ==
    IF k > Len(l) \/ I = {} THEN I ELSE EndsSeq(l, k + 1, s, Ends(l[k], s, I))

\* exactly n repetitions
EndsRep(r, n, s, I) ==
    IF n = 0 \/ I = {} THEN I ELSE EndsRep(r, n - 1, s, Ends(r, s, I))

\* between 0 and n repetitions
EndsUpTo(r, n, s, I) ==
    IF n = 0 \/ I = {} THEN I ELSE I \cup EndsUpTo(r, n - 1, s, Ends(r, s, I))

\* any number of repetitions
Closure(r, s, I) ==
    LET J == I \cup Ends(r, s, I)
    IN IF J = I THEN I ELSE Closure(r, s, J)

\* pattern.match(s): a match that starts at the first character
ReMatch(re, s) == Ends(re, s, {1}) # {}

\* pattern.search(s): a match that starts anywhere
ReSearch(re, s) == Ends(re, s, 1..(Len(s) + 1)) # {}

\* re.compile(re, re.IGNORECASE): kept lower-cased, and matched against the
\* lower-cased text by MatchIC and SearchIC
CompileIC(re) == LowerRe(re)
CompileAllIC(res) == [k \in 1..Len(res) |-> CompileIC(res[k])]
MatchIC(compiled, s) == ReMatch(compiled, StrLower(s))
SearchIC(compiled, s) == ReSearch(compiled, StrLower(s))

\* re.sub(re + '$', '', s) for an expression that matches no empty string: the
\* text before the leftmost position from which re matches up to the end
StripSuffix(re, s) ==
    LET starts == {i \in 1..Len(s) : (Len(s) + 1) \in Ends(re, s, {i})}
    IN IF starts = {} THEN s
       ELSE SubSeq(s, 1, (CHOOSE i \in starts : \A j \in starts : i <= j) - 1)

RECURSIVE RemoveFixed(_, _, _)
\* re.sub(re, '', s) for an expression whose every match has length n > 0:
\* the leftmost non-overlapping matches are removed
RemoveFixed(re, n, s) ==
    IF Len(s) < n THEN s
    ELSE IF (n + 1) \in Ends(re, s, {1})
         THEN RemoveFixed(re, n, SubSeq(s, n + 1, Len(s)))
         ELSE CharAt(s, 1) \o RemoveFixed(re, n, Tail(s))

(***************************************************************************)
(* The patterns and keywords of PDFHeadingExtractor.__init__               *)
(***************************************************************************)
DIG == Chr(Digits)
SP == Chr(WS)
ROMAN == Chr(CharSet("IVXLCDM"))
ROMAN_LOWER == Chr(CharSet("ivxlcdm"))
AZ == Chr(UpperAZ)
az == Chr(LowerAZ)
azAZ == Chr(Letters)
\* [:\.]?$
OptEnd == <<Opt(Chr({":", "."})), Eol>>
\* (\.\d+)*
DotNums == Star(Cat(<<Str("."), Plus(DIG)>>))

RECURSIVE PhraseFrom(_, _)
PhraseFrom(words, k) ==
    IF k > Len(words) THEN <<>>
    ELSE (IF k = 1 THEN <<>> ELSE <<Plus(SP)>>) \o <<Str(words[k])>> \o PhraseFrom(words, k + 1)
\* w1\s+w2\s+...\s+wn
Phrase(words) == Cat(PhraseFrom(words, 1))

\* self.heading_patterns: all compiled with re.IGNORECASE, used with .match
heading_patterns == CompileAllIC(<<
    Cat(<<Bol, Star(SP),
          Alt(<<Str("Chapter"), Str("Section"), Str("Part"), Str("Appendix")>>),
          Plus(SP), Alt(<<Plus(DIG), Plus(ROMAN)>>), DotNums, Star(SP)>> \o OptEnd),
    Cat(<<Bol, Star(SP), Plus(DIG), DotNums, Opt(Str(".")), Star(SP), AZ,
          Star(AnyChar)>> \o OptEnd),
    Cat(<<Bol, Star(SP), Plus(ROMAN), Plus(SP), AZ, Star(AnyChar)>> \o OptEnd),
    Cat(<<Bol, AZ, AtLeast(Chr(UpperAZ \cup WS), 5), NotAfter({"."}), Star(SP), Eol>>),
    Cat(<<Bol, AZ, Plus(az), Star(Cat(<<Plus(SP), AZ, Star(az)>>)), Star(SP)>> \o OptEnd),
    Cat(<<Bol, Star(SP), Str("("), az, Str(")"), Plus(SP), AZ, Star(AnyChar)>> \o OptEnd),
    Cat(<<Bol, Star(SP), az, Str("."), Plus(SP), AZ, Star(AnyChar)>> \o OptEnd)
  >>)

\* self.heading_keywords
heading_keywords == {
    "introduction", "conclusion", "summary", "overview", "background",
    "methodology", "results", "discussion", "references", "appendix",
    "chapter", "section", "abstract", "acknowledgments", "bibliography",
    "annex", "preface", "foreword", "table of contents", "list of figures",
    "list of tables", "definitions", "scope", "purpose", "policy", "procedure",
    "executive summary", "terms and conditions", "legal", "analysis", "findings",
    "evaluation", "award", "timeline", "milestones", "approach", "requirements",
    "principles", "access", "guidance", "training", "purchasing", "technological",
    "mean", "developed", "criteria", "process", "membership", "chair", "meetings",
    "accountability", "communication", "financial", "administrative", "policies",
    "preamble", "terms of reference" }

\* self.NON_CONTENT_PATTERNS with re.IGNORECASE, used with .search
NON_CONTENT_IC == CompileAllIC(<<
    Cat(<<Bol, Star(SP), Plus(DIG), Star(SP), Eol>>),
    Cat(<<Bol, Star(SP), Str("-"), Star(SP), Plus(DIG), Star(SP), Str("-"), Star(SP), Eol>>),
    Cat(<<Bol, Star(SP), Str("page"), Plus(SP), Plus(DIG), Star(SP), Eol>>),
    Cat(<<Bol, Star(SP), Str("page"), Plus(SP), Plus(DIG), Plus(SP), Str("of"), Plus(SP),
          Plus(DIG), Star(SP), Eol>>),
    Cat(<<Bol, Star(SP), Alt(<<Plus(ROMAN_LOWER), az>>), Star(SP), Eol>>),
    Str("www."), Str(".gov"), Str(".org"), Str(".com"),
    Str("confidential"), Str("proprietar"), Str("draft"),
    Str("author"), Str("doi:"), Str("copyright"),
    Cat(<<Str("version"), Star(SP), DIG>>),
    Phrase(<<"all", "rights", "reserved">>), Phrase(<<"contact", "information">>),
    Phrase(<<"revision", "history">>), Phrase(<<"document", "id">>), Phrase(<<"file", "id">>),
    Cat(<<Str("bosch"), Rep(Str("a"), 0, 1), Plus(SP), Str("north"), Plus(SP), Str("america")>>),
    Phrase(<<"mutual", "nda">>),
    Cat(<<Str("rev."), Star(SP), Rep(DIG, 4, 4), Str("."), Rep(DIG, 2, 2), Str("."),
          Rep(DIG, 2, 2)>>),
    Str("gretchen whitmer"), Str("by the governor"), Str("secretary of state"),
    Cat(<<Rep(DIG, 1, 3), Plus(SP),
          Opt(Alt(<<Str("south"), Str("north"), Str("east"), Str("west")>>)),
          Star(SP), Str("capitol")>>),
    Str("george w. romney building"), Str("printed in-house"),
    Cat(<<Bol, Star(SP), Alt(<<Cat(<<Str("p"), Opt(Str("."))>>), Cat(<<Str("pg"), Opt(Str("."))>>)>>),
          Star(SP), Plus(DIG), Star(SP), Eol>>),
    Cat(<<Phrase(<<"rfp:", "to", "develop", "the", "ontario", "digital", "library",
                   "business", "plan", "march">>), Plus(SP), Rep(DIG, 4, 4)>>),
    Phrase(<<"ontario's", "libraries">>),
    Phrase(<<"working", "together">>),
    Phrase(<<"connecting", "ontarians!">>)
  >>)

\* the one entry of self.NON_CONTENT_PATTERNS compiled without re.IGNORECASE
SEPARATOR_PATTERN ==
    Cat(<<Bol, Star(SP), AtLeast(Chr({"*", "#", "-", "_", "="} \cup WS), 3), Eol>>)

\* any(p.search(text) for p in self.NON_CONTENT_PATTERNS)
MatchesNonContent(text) ==
    \/ \E k \in 1..Len(NON_CONTENT_IC) : SearchIC(NON_CONTENT_IC[k], text)
    \/ ReSearch(SEPARATOR_PATTERN, text)

\* any(pattern.match(text) for pattern in self.heading_patterns)
MatchesHeadingPattern(text) ==
    \E k \in 1..Len(heading_patterns) : MatchIC(heading_patterns[k], text)

\* any(keyword in line_text.lower() for keyword in self.heading_keywords)
HasCue(text) == LET lower == StrLower(text) IN \E kw \in heading_keywords : Contains(lower, kw)

\* the enumeration test of extract_text_lines_with_features
ENUM_PATTERN ==
    Cat(<<Bol, Star(SP),
          Alt(<<Cat(<<Plus(DIG), DotNums, Opt(Str("."))>>),
                Cat(<<AZ, Star(azAZ), Str(".")>>),
                Cat(<<Str("("), azAZ, Str(")")>>),
                Cat(<<Plus(DIG), Str(")")>>)>>),
          Star(SP)>>)
HasEnum(text) == ReMatch(ENUM_PATTERN, text)

\* the short-token test of _is_redundant_line
SHORT_TOKEN_PATTERN ==
    Cat(<<Bol, Star(SP),
          Alt(<<Cat(<<Plus(DIG), Opt(Str("."))>>),
                Cat(<<Str("("), azAZ, Str(")")>>),
                Cat(<<Chr(WordChars), Str(".")>>),
                Cat(<<Star(SP), Chr({"*", "+", "-"}), Star(SP)>>)>>),
          Eol>>)
IsShortToken(text) == ReMatch(SHORT_TOKEN_PATTERN, text)

\* the trailing page-number forms removed by _normalize_text_for_hf_comparison
HF_SUFFIX_PATTERN ==
    Alt(<<Cat(<<Plus(DIG), Star(SP), Str("of"), Star(SP), Plus(DIG)>>),
          Cat(<<Star(SP), Str("page"), Star(SP), Plus(DIG), Star(SP)>>),
          Cat(<<Str("-"), Star(SP), Plus(DIG), Star(SP), Str("-")>>),
          Plus(DIG)>>)
\* \d{4}-\d{2}-\d{2}
DATE_PATTERN == Cat(<<Rep(DIG, 4, 4), Str("-"), Rep(DIG, 2, 2), Str("-"), Rep(DIG, 2, 2)>>)
\* [0-9a-f]{32}
HASH_PATTERN == Rep(Chr(Digits \cup CharSet("abcdef")), 32, 32)

_normalize_text_for_hf_comparison(text) ==
    LET n0 == StrLower(Strip(CollapseWS(text)))
        n1 == Strip(StripSuffix(HF_SUFFIX_PATTERN, n0))
        n2 == Strip(RemoveFixed(DATE_PATTERN, 10, n1))
    IN Strip(RemoveFixed(HASH_PATTERN, 32, n2))

\* the enumeration tests of classify_heading_level (re.match, case-sensitive)
ENUM3_PATTERN ==
    Cat(<<Bol, Star(SP), Plus(DIG), Str("."), Plus(DIG), Str("."), Plus(DIG), DotNums, Plus(SP)>>)
ENUM2_PATTERN == Cat(<<Bol, Star(SP), Plus(DIG), Str("."), Plus(DIG), Plus(SP)>>)
ENUM1_PATTERN == Cat(<<Bol, Star(SP), Plus(DIG), Plus(SP)>>)
ENUM_ROMAN_PATTERN == Cat(<<Bol, Star(SP), Plus(ROMAN), Plus(SP)>>)
ENUM_LETTER_PAREN_PATTERN == Cat(<<Bol, Star(SP), azAZ, Opt(Str(".")), Star(SP), Str(")")>>)
ENUM_LETTER_DOT_PATTERN == Cat(<<Bol, Star(SP), azAZ, Star(SP), Str("."), Plus(SP)>>)

\* re.match(r'.*\d+\.$', text) of merge_multiline_headings
ENDS_WITH_NUMBER_DOT == Cat(<<Star(AnyChar), Plus(DIG), Str("."), Eol>>)
\* re.match(r'^\d+\.?$', title) of extract_title
BARE_NUMBER == Cat(<<Bol, Plus(DIG), Opt(Str(".")), Eol>>)

(***************************************************************************)
(* The page-layout API (fitz): what doc[page].get_text("dict") returns     *)
(***************************************************************************)
Span(text, size, font, flags, color) ==
    [text |-> text, size |-> size, font |-> font, flags |-> flags, color |-> color]
TextLine(bbox, spans) == [bbox |-> bbox, spans |-> spans]
\* a block with a "lines" entry
TextBlock(bbox, lines) == [bbox |-> bbox, has_lines |-> TRUE, lines |-> lines]
\* a block without one (an image)
ImageBlock(bbox) == [bbox |-> bbox, has_lines |-> FALSE, lines |-> <<>>]
Page(width, height, blocks) == [width |-> width, height |-> height, blocks |-> blocks]

RECURSIVE JoinFrom(_, _)
JoinFrom(texts, k) ==
    IF k > Len(texts) THEN ""
    ELSE IF k = Len(texts) THEN texts[k]
    ELSE texts[k] \o " " \o JoinFrom(texts, k + 1)
\* " ".join(texts)
Join(texts) == JoinFrom(texts, 1)

\* " ".join([s["text"] for s in l["spans"]]).strip()
LineText(l) == Strip(Join([k \in 1..Len(l.spans) |-> l.spans[k].text]))

RECURSIVE Flatten(_)
Flatten(seqs) == IF Len(seqs) = 0 THEN <<>> ELSE Head(seqs) \o Flatten(Tail(seqs))

\* list(q): the sequence with every element evaluated
List(q) == q \o <<>>

\* dict(f): the function with every value evaluated
Table(f) == f @@ <<>>

RECURSIVE Loop(_, _, _, _)
\* a loop of at most n iterations: "while not Done(state): state = Step(state)".
\* The iterations are split in halves so that long loops evaluate at small depth.
Loop(Step(_), Done(_), n, state) ==
    IF n = 0 \/ Done(state) THEN state
    ELSE IF n = 1 THEN Step(state)
    ELSE Loop(Step, Done, n - n \div 2, Loop(Step, Done, n \div 2, state))

\* tuples of integers in lexicographic order (Python's tuple comparison)
RECURSIVE KeyLess(_, _)
KeyLess(a, b) ==
    IF Len(a) = 0 \/ Len(b) = 0 THEN Len(a) < Len(b)
    ELSE IF Head(a) # Head(b) THEN Head(a) < Head(b)
    ELSE KeyLess(Tail(a), Tail(b))

\* sorted(items, key=...): a stable sort; keys[k] is the key of items[k].
\* items[k] goes after the items with a smaller key and after the earlier
\* items with an equal key.
StableSort(items, keys) ==
    LET n == Len(items)
        key == List(keys)
        rank == List([k \in 1..n |->
                    1 + Cardinality({j \in 1..n :
                            \/ KeyLess(key[j], key[k])
                            \/ j < k /\ ~KeyLess(key[k], key[j])})])
        at == List([r \in 1..n |-> CHOOSE k \in 1..n : rank[k] = r])
    IN List([r \in 1..n |-> items[at[r]]])

(***************************************************************************)
(* PDFHeadingExtractor: configuration                                      *)
(***************************************************************************)
\* 0.06, in hundredths
HF_TOP_ZONE_PERCENTAGE == 6
HF_BOTTOM_ZONE_PERCENTAGE == 6
HF_MIN_PAGES_FOR_REPETITION == 3
\* 0.75, in hundredths
HF_REPETITION_THRESHOLD_PERCENT == 75
HEADING_SCORE_THRESHOLD == 75
\* 1.3, in tenths
MIN_HEADING_FONT_SIZE_RATIO == 13
MAX_HEADING_WORD_COUNT == 18
\* pages_to_scan_for_patterns = min(total, 10)
HF_SCAN_PAGES == 10
\* the cap of process_pdf on accepted headings
MAX_HEADINGS == 150
\* the fallbacks for a page whose dimensions are not stored
DEFAULT_PAGE_WIDTH == 595
DEFAULT_PAGE_HEIGHT == 842
\* the fallback mean font size
DEFAULT_FONT_SIZE == 12

\* The extractor's state is the record self:
\*   hf: self._hf_candidates, total: self._total_pages_in_doc,
\*   dims: self._page_dimensions (page_num -> <<width, height>>)
EmptyMap == [k \in {} |-> 0]
\* the state of a newly constructed extractor
NewExtractor == [hf |-> EmptyMap, total |-> 0, dims |-> EmptyMap]

\* a variant that clears nothing
_reset_state_keeps(self) == self

_reset_state(self) == [hf |-> EmptyMap, total |-> 0, dims |-> EmptyMap]

_is_bold(flags) == flags % 2 = 1
_is_italic(flags) == (flags \div 2) % 2 = 1

\* int(y / 5) * 5: int() truncates towards zero
YBucket(y) == IF y >= 0 THEN (y \div 5) * 5 ELSE -(((-y) \div 5) * 5)

\* y_top < page_height * HF_TOP_ZONE_PERCENTAGE
InTopZone(y_top, page_height) == 100 * y_top < HF_TOP_ZONE_PERCENTAGE * page_height
\* y_bottom > page_height * (1 - HF_BOTTOM_ZONE_PERCENTAGE)
InBottomZone(y_bottom, page_height) ==
    100 * y_bottom > (100 - HF_BOTTOM_ZONE_PERCENTAGE) * page_height

(***************************************************************************)
(* _pre_process_for_hf_detection                                           *)
(***************************************************************************)
\* the pages the census scans
PagesToScan(total) == Min2(total, HF_SCAN_PAGES)

\* the census key of a line, as computed in both passes
HFKey(text, y_top, in_top_zone) ==
    <<_normalize_text_for_hf_comparison(text), YBucket(y_top), in_top_zone>>

\* whether the line l of page number page_num (0-based) is counted by the census
HFCounted(doc, page_num, l) ==
    LET page == doc.pages[page_num + 1]
        text == LineText(l)
        in_top == InTopZone(l.bbox[2], page.height)
        in_bottom == InBottomZone(l.bbox[4], page.height)
    IN /\ text # ""
       /\ in_top \/ in_bottom
       /\ page_num < PagesToScan(Len(doc.pages))
       /\ Len(_normalize_text_for_hf_comparison(text)) > 3

\* every line of the document a block holds: <<page_num, block index, line index>>
AllLineRefs(doc) ==
    UNION {UNION {{<<p - 1, b, k>> : k \in 1..Len(doc.pages[p].blocks[b].lines)}
                  : b \in {c \in 1..Len(doc.pages[p].blocks) : doc.pages[p].blocks[c].has_lines}}
           : p \in 1..Len(doc.pages)}

LineAt(doc, ref) == doc.pages[ref[1] + 1].blocks[ref[2]].lines[ref[3]]

_pre_process_for_hf_detection(self, doc) ==
    LET counted == {r \in AllLineRefs(doc) : HFCounted(doc, r[1], LineAt(doc, r))}
        KeyOf == Table([r \in counted |->
                    HFKey(LineText(LineAt(doc, r)), LineAt(doc, r).bbox[2],
                          InTopZone(LineAt(doc, r).bbox[2], doc.pages[r[1] + 1].height))])
        keys == {KeyOf[r] : r \in counted}
        Old(k) == IF k \in DOMAIN self.hf THEN self.hf[k] ELSE 0
        pageNums == {p - 1 : p \in 1..Len(doc.pages)}
    IN [hf |-> [k \in (DOMAIN self.hf) \cup keys |->
                    Old(k) + Cardinality({r \in counted : KeyOf[r] = k})],
        total |-> Len(doc.pages),
        dims |-> [n \in (DOMAIN self.dims) \cup pageNums |->
                    IF n \in pageNums
                    THEN <<doc.pages[n + 1].width, doc.pages[n + 1].height>>
                    ELSE self.dims[n]]]

(***************************************************************************)
(* _is_redundant_line                                                      *)
(***************************************************************************)
PageHeightOf(self, page_num) ==
    IF page_num \in DOMAIN self.dims THEN self.dims[page_num][2] ELSE DEFAULT_PAGE_HEIGHT
PageWidthOf(self, page_num) ==
    IF page_num \in DOMAIN self.dims THEN self.dims[page_num][1] ELSE DEFAULT_PAGE_WIDTH

\* Rule 4: count >= HF_MIN_PAGES_FOR_REPETITION and
\* count / total >= HF_REPETITION_THRESHOLD_PERCENT
IsRepetitive(self, text, y_top, page_num) ==
    LET key == HFKey(text, y_top, InTopZone(y_top, PageHeightOf(self, page_num)))
    IN /\ self.total > 0
       /\ Len(key[1]) > 3
       /\ key \in DOMAIN self.hf
       /\ self.hf[key] >= HF_MIN_PAGES_FOR_REPETITION
       /\ 100 * self.hf[key] >= HF_REPETITION_THRESHOLD_PERCENT * self.total

\* a variant that applies the short-line rule before the fixed patterns
_is_redundant_line_short_first(self, text, y_top, y_bottom, page_num) ==
    IF Len(Strip(text)) < 5 THEN ~IsShortToken(Strip(text))
    ELSE IF MatchesNonContent(StrLower(Strip(text))) THEN TRUE
    ELSE IsRepetitive(self, text, y_top, page_num)

_is_redundant_line(self, text, y_top, y_bottom, page_num) ==
    IF MatchesNonContent(StrLower(Strip(text))) THEN TRUE
    ELSE IF Len(Strip(text)) < 5 THEN ~IsShortToken(Strip(text))
    ELSE IsRepetitive(self, text, y_top, page_num)

(***************************************************************************)
(* analyze_font_statistics                                                 *)
(***************************************************************************)
\* sum(q)
SumSeq(q) ==
    Loop(LAMBDA st : [i |-> st.i + 1, sum |-> st.sum + q[st.i]],
         LAMBDA st : st.i > Len(q),
         Len(q), [i |-> 1, sum |-> 0]).sum

CountOf(q, v) == Cardinality({k \in 1..Len(q) : q[k] = v})
FirstIndexOf(q, v) == CHOOSE k \in 1..Len(q) : q[k] = v /\ \A j \in 1..(k - 1) : q[j] # v

\* Counter(q).most_common(1)[0][0]: the most frequent value, the one met
\* first among equally frequent ones
MostCommon(q) ==
    CHOOSE v \in {q[k] : k \in 1..Len(q)} :
        \A w \in {q[k] : k \in 1..Len(q)} :
            \/ CountOf(q, v) > CountOf(q, w)
            \/ CountOf(q, v) = CountOf(q, w) /\ FirstIndexOf(q, v) <= FirstIndexOf(q, w)

\* the font statistics: empty (the {} of the source), or the mean as num/den,
\* twice the median, and the body font size
analyze_font_statistics(text_blocks) ==
    LET font_sizes == SelectSeq([k \in 1..Len(text_blocks) |-> text_blocks[k].font_size],
                                LAMBDA x : x > 0)
        sorted == StableSort(font_sizes, [k \in 1..Len(font_sizes) |-> <<font_sizes[k]>>])
        n == Len(font_sizes)
    IN IF n = 0 THEN [empty |-> TRUE, mean_num |-> 0, mean_den |-> 1,
                      median2 |-> 0, body_font_size |-> 0]
       ELSE [empty |-> FALSE, mean_num |-> SumSeq(font_sizes), mean_den |-> n,
             median2 |-> IF n % 2 = 1 THEN 2 * sorted[(n + 1) \div 2]
                         ELSE sorted[n \div 2] + sorted[n \div 2 + 1],
             body_font_size |-> MostCommon(font_sizes)]

(***************************************************************************)
(* calculate_heading_score: one operator per component of the sum          *)
(***************************************************************************)
\* font-size tier: size_ratio = font_size / avg_doc_font_size
FontSizeScore(line_data, avg) ==
    IF avg.num > 0
    THEN IF 10 * line_data.font_size * avg.den >= 18 * avg.num THEN 50
         ELSE IF 10 * line_data.font_size * avg.den >= 15 * avg.num THEN 35
         ELSE IF 10 * line_data.font_size * avg.den > MIN_HEADING_FONT_SIZE_RATIO * avg.num
              THEN 25
         ELSE 0
    ELSE 0

BoldScore(line_data) == IF line_data.is_bold THEN 45 ELSE 0

ItalicScore(line_data) == 0

PatternScore(line_data) == IF MatchesHeadingPattern(line_data.text) THEN 30 ELSE 0

EnumScore(line_data) == IF line_data.has_enum THEN 35 ELSE 0

CueScore(line_data) == IF line_data.has_cue THEN 10 ELSE 0

\* line_data.get('whitespace_below', 0.0): no line record has that entry
WhitespaceBelow(line_data) == 0

\* body_size = avg_doc_font_size
WhitespaceScore(line_data, avg) ==
    LET combined_whitespace == line_data.whitespace_above + WhitespaceBelow(line_data)
    IN IF 10 * combined_whitespace * avg.den > 25 * avg.num THEN 15
       ELSE IF 10 * combined_whitespace * avg.den > 15 * avg.num THEN 10
       ELSE IF 10 * combined_whitespace * avg.den > 8 * avg.num THEN 5
       ELSE 0

\* abs(x_pos - page_width * 0.12) < 10
LeftAlignScore(line_data, page_width) ==
    IF Abs(100 * line_data.x_pos - 12 * page_width) < 1000 THEN 10 ELSE 0

\* text_center_x = x_pos + (bbox[2] - x_pos) / 2;
\* abs(text_center_x - page_width / 2) < page_width * 0.08
CenterScore(line_data, page_width) ==
    IF 100 * Abs(line_data.x_pos + line_data.bbox[3] - page_width) < 16 * page_width
    THEN 12 ELSE 0

WordCountScore(line_data) ==
    IF 2 <= line_data.word_count /\ line_data.word_count <= MAX_HEADING_WORD_COUNT THEN 6
    ELSE IF line_data.word_count > MAX_HEADING_WORD_COUNT + 10 THEN -30
    ELSE IF line_data.word_count < 2 THEN -25
    ELSE 0

\* cap_ratio is kept in hundredths
CapitalizationScore(line_data) ==
    IF line_data.cap_ratio = 100 /\ 2 * line_data.word_count <= MAX_HEADING_WORD_COUNT THEN 12
    ELSE IF IsTitle(line_data.text) /\ line_data.word_count <= MAX_HEADING_WORD_COUNT THEN 8
    ELSE 0

\* a variant without the penalty for a period at the end
EndingPunctScore_lenient(line_data) == IF line_data.ends_with_colon THEN 15 ELSE 10

EndingPunctScore(line_data) ==
    IF line_data.ends_with_period THEN -45
    ELSE IF line_data.ends_with_colon THEN 15
    ELSE 10

\* a variant for the top of every page
FirstPageScore_any_page(line_data, avg) ==
    IF /\ line_data.y_pos < 120
       /\ 10 * line_data.font_size * avg.den >= 18 * avg.num
    THEN 25 ELSE 0

\* page == 1 and y_pos < 120 and font_size >= body_size * 1.8, with
\* body_size = avg_doc_font_size
FirstPageScore(line_data, avg) ==
    IF /\ line_data.page = 1
       /\ line_data.y_pos < 120
       /\ 10 * line_data.font_size * avg.den >= 18 * avg.num
    THEN 25 ELSE 0

ColorScore(line_data) == IF line_data.color = 0 THEN 3 ELSE 0

\* The f-string of the first logging.debug call formats size_ratio, which is
\* bound only when avg_doc_font_size > 0: UnboundLocalError otherwise.
calculate_heading_score_raises(line_data, avg) == line_data.text # "" /\ avg.num <= 0

\* the sum of the components, for a line with text on a page of width page_width
ScoreSum(line_data, avg, page_width) ==
    FontSizeScore(line_data, avg) + BoldScore(line_data) + ItalicScore(line_data)
    + PatternScore(line_data) + EnumScore(line_data) + CueScore(line_data)
    + WhitespaceScore(line_data, avg)
    + LeftAlignScore(line_data, page_width) + CenterScore(line_data, page_width)
    + WordCountScore(line_data) + CapitalizationScore(line_data)
    + EndingPunctScore(line_data) + FirstPageScore(line_data, avg)
    + ColorScore(line_data)

\* a variant that also reads the header/footer census
calculate_heading_score_counting(self, line_data, avg) ==
    ScoreSum(line_data, avg, PageWidthOf(self, line_data.page - 1))
    + Cardinality(DOMAIN self.hf)

\* the score (an integer: every component is one); the page width is read from
\* self._page_dimensions
calculate_heading_score(self, line_data, avg) ==
    IF line_data.text = "" THEN 0
    ELSE ScoreSum(line_data, avg, PageWidthOf(self, line_data.page - 1))

(***************************************************************************)
(* extract_text_lines_with_features                                        *)
(***************************************************************************)
\* every span size > 0 of the document, in reading order of the raw blocks
AllSpanSizes(doc) ==
    Flatten([p \in 1..Len(doc.pages) |->
        Flatten([b \in 1..Len(doc.pages[p].blocks) |->
            Flatten([k \in 1..Len(doc.pages[p].blocks[b].lines) |->
                SelectSeq([j \in 1..Len(doc.pages[p].blocks[b].lines[k].spans) |->
                              doc.pages[p].blocks[b].lines[k].spans[j].size],
                          LAMBDA x : x > 0)])])])

\* statistics.mean(all_doc_font_sizes) if all_doc_font_sizes else 12.0
AvgDocFontSize(doc) ==
    LET sizes == AllSpanSizes(doc)
    IN IF Len(sizes) = 0 THEN [num |-> DEFAULT_FONT_SIZE, den |-> 1]
       ELSE [num |-> SumSeq(sizes), den |-> Len(sizes)]

\* sorted(..., key=lambda b: (b['bbox'][1], b['bbox'][0]))
SortByYX(items) == StableSort(items, [k \in 1..Len(items) |-> <<items[k].bbox[2], items[k].bbox[1]>>])

\* the lines of a page in the order the extraction loop visits them
PageLinesInOrder(page) ==
    LET blocks_sorted == SelectSeq(SortByYX(page.blocks), LAMBDA b : b.has_lines)
    IN Flatten([b \in 1..Len(blocks_sorted) |-> SortByYX(blocks_sorted[b].lines)])

\* the line record before scoring
LineFeatures(line_dict, page_num, prev_bottom, seq_idx, avg) ==
    LET line_text == LineText(line_dict)
        first_span == line_dict.spans[1]
        font_size == first_span.size
    IN [text |-> line_text,
        page |-> page_num + 1,
        font_size |-> font_size,
        font_name |-> first_span.font,
        is_bold |-> _is_bold(first_span.flags),
        is_italic |-> _is_italic(first_span.flags),
        bbox |-> line_dict.bbox,
        color |-> first_span.color,
        rel_font_size |-> IF avg.num > 0 THEN Round2(font_size * avg.den, avg.num) ELSE 0,
        x_pos |-> line_dict.bbox[1],
        y_pos |-> line_dict.bbox[2],
        whitespace_above |-> Max2(0, line_dict.bbox[2] - prev_bottom),
        seq_idx |-> seq_idx,
        word_count |-> WordCount(line_text),
        cap_ratio |-> Round2(UpperCount(line_text), Max2(Len(line_text), 1)),
        ends_with_period |-> EndsWithChar(line_text, "."),
        ends_with_colon |-> EndsWithChar(line_text, ":"),
        has_enum |-> HasEnum(line_text),
        has_cue |-> HasCue(line_text)]

WithScore(self, features, avg) ==
    [k \in (DOMAIN features) \cup {"heading_score"} |->
        IF k = "heading_score" THEN calculate_heading_score(self, features, avg)
        ELSE features[k]]

\* a variant in which a redundant line leaves the last bottom as it was
ExtractStep_keeps_bottom(self, lines, page_num, avg, st) ==
    LET l == lines[st.k]
        line_text == LineText(l)
    IN IF line_text = "" THEN [st EXCEPT !.k = @ + 1]
       ELSE IF _is_redundant_line(self, line_text, l.bbox[2], l.bbox[4], page_num)
       THEN [st EXCEPT !.k = @ + 1]
       ELSE [k |-> st.k + 1,
             prev_bottom |-> l.bbox[4],
             acc |-> Append(st.acc, WithScore(self,
                        LineFeatures(l, page_num, st.prev_bottom, Len(st.acc), avg), avg))]

\* one iteration of the loop over the lines of a page: st.k is the position in
\* lines, st.prev_bottom is prev_valid_line_bottom_y_per_page[page_num], st.acc
\* is text_lines_data
ExtractStep(self, lines, page_num, avg, st) ==
    LET l == lines[st.k]
        line_text == LineText(l)
    IN IF line_text = "" THEN [st EXCEPT !.k = @ + 1]
       ELSE IF _is_redundant_line(self, line_text, l.bbox[2], l.bbox[4], page_num)
       THEN [st EXCEPT !.k = @ + 1, !.prev_bottom = l.bbox[4]]
       ELSE [k |-> st.k + 1,
             prev_bottom |-> l.bbox[4],
             acc |-> Append(st.acc, WithScore(self,
                        LineFeatures(l, page_num, st.prev_bottom, Len(st.acc), avg), avg))]

\* the lines of one page, appended to acc
ExtractFrom(self, lines, page_num, avg, acc) ==
    Loop(LAMBDA st : ExtractStep(self, lines, page_num, avg, st),
         LAMBDA st : st.k > Len(lines),
         Len(lines), [k |-> 1, prev_bottom |-> 0, acc |-> acc]).acc

extract_text_lines_with_features(self, doc) ==
    LET avg == AvgDocFontSize(doc)
    IN Loop(LAMBDA st : [p |-> st.p + 1,
                         acc |-> ExtractFrom(self, PageLinesInOrder(doc.pages[st.p]),
                                             st.p - 1, avg, st.acc)],
            LAMBDA st : st.p > Len(doc.pages),
            Len(doc.pages), [p |-> 1, acc |-> <<>>]).acc

(***************************************************************************)
(* process_pdf: candidate selection                                        *)
(***************************************************************************)
\* sorted([... if heading_score >= HEADING_SCORE_THRESHOLD],
\*        key=lambda x: x['heading_score'], reverse=True)
HeadingCandidates(text_lines) ==
    LET cands == SelectSeq(text_lines, LAMBDA l : l.heading_score >= HEADING_SCORE_THRESHOLD)
    IN StableSort(cands, [k \in 1..Len(cands) |-> <<-(cands[k].heading_score)>>])

\* sorted(heading_candidates, key=lambda x: (x['page'], x['y_pos']))
SpatialSort(cands) ==
    StableSort(cands, [k \in 1..Len(cands) |-> <<cands[k].page, cands[k].y_pos>>])

\* re.sub(r'\s+', ' ', text).strip().lower()
NormText(text) == StrLower(Strip(CollapseWS(text)))

\* a variant without the font size condition
TooClose_any_size(candidate, last) ==
    /\ last.page = candidate.page
    /\ 10 * (candidate.y_pos - last.bbox[4]) < 8 * candidate.font_size
    /\ candidate.is_bold = last.is_bold

\* the proximity test against the heading accepted last
TooClose(candidate, last) ==
    /\ last.page = candidate.page
    /\ 10 * (candidate.y_pos - last.bbox[4]) < 8 * candidate.font_size
    /\ Abs(candidate.font_size - last.font_size) < 1
    /\ candidate.is_bold = last.is_bold

\* a variant that stops one heading later
CapReached_late(accepted) == Len(accepted) > MAX_HEADINGS

\* len(final_filtered_headings) >= 150: stop
CapReached(accepted) == Len(accepted) >= MAX_HEADINGS

\* one iteration of the selection loop: st.accepted is final_filtered_headings,
\* st.seen is seen_norm_texts, st.stop is set by the break
SelectStep(cands, st) ==
    LET candidate == cands[st.k]
        norm_text == NormText(candidate.text)
    IN IF Len(norm_text) < 5 \/ norm_text \in st.seen
       THEN [st EXCEPT !.k = @ + 1]
       ELSE IF Len(st.accepted) > 0 /\ TooClose(candidate, st.accepted[Len(st.accepted)])
       THEN [st EXCEPT !.k = @ + 1]
       ELSE LET next == Append(st.accepted, candidate)
            IN [k |-> st.k + 1, accepted |-> next, seen |-> st.seen \cup {norm_text},
                stop |-> CapReached(next)]

SelectFrom(cands) ==
    Loop(LAMBDA st : SelectStep(cands, st),
         LAMBDA st : st.stop \/ st.k > Len(cands),
         Len(cands), [k |-> 1, accepted |-> <<>>, seen |-> {}, stop |-> FALSE]).accepted

SelectHeadings(text_lines) == SelectFrom(SpatialSort(HeadingCandidates(text_lines)))

(***************************************************************************)
(* merge_multiline_headings                                                *)
(***************************************************************************)
\* a variant that sorts in descending order
SortByPageTop_reversed(headings) ==
    StableSort(headings, [k \in 1..Len(headings) |-> <<-headings[k].page, -headings[k].bbox[2]>>])

\* sorted(headings, key=lambda h: (h['page'], h['bbox'][1]))
SortByPageTop(headings) ==
    StableSort(headings, [k \in 1..Len(headings) |-> <<headings[k].page, headings[k].bbox[2]>>])

\* a variant that compares with 1.5 times the default font size
NotExceptionallyLarge_of_default(current) == 10 * current.font_size < 15 * DEFAULT_FONT_SIZE

\* current_merged['font_size'] < current_merged['font_size'] * 1.5
NotExceptionallyLarge(current) == 10 * current.font_size < 15 * current.font_size

\* the conditions for not merging next_h into current_merged
\* a variant that folds enumerated lines
MergeBreak_folds_enumerations(current, next_h) ==
    \/ current.page # next_h.page
    \/ 10 * (next_h.bbox[2] - current.bbox[4]) >= 15 * current.font_size
    \/ Abs(current.font_size - next_h.font_size) >= 2
    \/ current.ends_with_period /\ ~ReMatch(ENDS_WITH_NUMBER_DOT, Strip(current.text))
    \/ /\ current.word_count > MAX_HEADING_WORD_COUNT + 5
       /\ next_h.word_count > MAX_HEADING_WORD_COUNT + 5
    \/ ~current.is_bold /\ ~next_h.is_bold /\ NotExceptionallyLarge(current)

MergeBreak(current, next_h) ==
    \/ current.page # next_h.page
    \/ 10 * (next_h.bbox[2] - current.bbox[4]) >= 15 * current.font_size
    \/ Abs(current.font_size - next_h.font_size) >= 2
    \/ current.ends_with_period /\ ~ReMatch(ENDS_WITH_NUMBER_DOT, Strip(current.text))
    \/ next_h.has_enum
    \/ /\ current.word_count > MAX_HEADING_WORD_COUNT + 5
       /\ next_h.word_count > MAX_HEADING_WORD_COUNT + 5
    \/ ~current.is_bold /\ ~next_h.is_bold /\ NotExceptionallyLarge(current)

\* a variant that keeps the ending flags of the accumulator
MergeInto_keeps_ending(current, next_h) ==
    LET text == current.text \o " " \o Strip(next_h.text)
    IN [current EXCEPT
          !.text = text,
          !.bbox = <<Min2(current.bbox[1], next_h.bbox[1]), Min2(current.bbox[2], next_h.bbox[2]),
                     Max2(current.bbox[3], next_h.bbox[3]), Max2(current.bbox[4], next_h.bbox[4])>>,
          !.font_size = Max2(current.font_size, next_h.font_size),
          !.is_bold = current.is_bold \/ next_h.is_bold,
          !.is_italic = current.is_italic \/ next_h.is_italic,
          !.word_count = current.word_count + next_h.word_count,
          !.cap_ratio = Round2(UpperCount(text), Max2(Len(text), 1)),
          !.has_enum = current.has_enum \/ next_h.has_enum,
          !.has_cue = current.has_cue \/ next_h.has_cue,
          !.heading_score = Max2(current.heading_score, next_h.heading_score)]

MergeInto(current, next_h) ==
    LET text == current.text \o " " \o Strip(next_h.text)
    IN [current EXCEPT
          !.text = text,
          !.bbox = <<Min2(current.bbox[1], next_h.bbox[1]), Min2(current.bbox[2], next_h.bbox[2]),
                     Max2(current.bbox[3], next_h.bbox[3]), Max2(current.bbox[4], next_h.bbox[4])>>,
          !.font_size = Max2(current.font_size, next_h.font_size),
          !.is_bold = current.is_bold \/ next_h.is_bold,
          !.is_italic = current.is_italic \/ next_h.is_italic,
          !.word_count = current.word_count + next_h.word_count,
          !.cap_ratio = Round2(UpperCount(text), Max2(Len(text), 1)),
          !.ends_with_period = next_h.ends_with_period,
          !.ends_with_colon = next_h.ends_with_colon,
          !.has_enum = current.has_enum \/ next_h.has_enum,
          !.has_cue = current.has_cue \/ next_h.has_cue,
          !.heading_score = Max2(current.heading_score, next_h.heading_score)]

\* one iteration of the merge loop over sorted_headings[1:]
MergeStep(sorted_headings, st) ==
    LET next_h == sorted_headings[st.i]
    IN IF MergeBreak(st.current_merged, next_h)
       THEN [i |-> st.i + 1, current_merged |-> next_h,
             merged_headings |-> Append(st.merged_headings, st.current_merged)]
       ELSE [st EXCEPT !.i = @ + 1, !.current_merged = MergeInto(st.current_merged, next_h)]

merge_multiline_headings(headings) ==
    IF Len(headings) = 0 THEN <<>>
    ELSE LET sorted_headings == SortByPageTop(headings)
             last == Loop(LAMBDA st : MergeStep(sorted_headings, st),
                          LAMBDA st : st.i > Len(sorted_headings),
                          Len(sorted_headings),
                          [i |-> 2, current_merged |-> sorted_headings[1],
                           merged_headings |-> <<>>])
         IN Append(last.merged_headings, last.current_merged)

(***************************************************************************)
(* classify_heading_level                                                  *)
(***************************************************************************)
\* sorted(list(set(h['font_size'] for h in all_headings)), reverse=True)
_get_heading_font_sizes(all_headings) ==
    LET sizes == {all_headings[k].font_size : k \in 1..Len(all_headings)}
    IN [r \in 1..Cardinality(sizes) |->
          CHOOSE v \in sizes : Cardinality({w \in sizes : w > v}) = r - 1]

\* a variant that knows no rank
RankLevel_lowest(font_size, all_headings) == "H3"

\* level_map.get(font_size, 'H3')
RankLevel(font_size, all_headings) ==
    LET unique_heading_sizes == _get_heading_font_sizes(all_headings)
    IN IF Len(unique_heading_sizes) >= 1 /\ unique_heading_sizes[1] = font_size THEN "H1"
       ELSE IF Len(unique_heading_sizes) >= 2 /\ unique_heading_sizes[2] = font_size THEN "H2"
       ELSE "H3"

\* font_stats.get('body_font_size', 12)
BodySizeOf(font_stats) == IF font_stats.empty THEN 12 ELSE font_stats.body_font_size

\* re.match(r"^\s*\d+\s+", text) or re.match(r"^\s*[IVXLCDM]+\s+", text)
SingleLevelEnum(text) ==
    ReMatch(ENUM1_PATTERN, text) \/ ReMatch(ENUM_ROMAN_PATTERN, text)

LetterEnum(text) ==
    ReMatch(ENUM_LETTER_PAREN_PATTERN, text) \/ ReMatch(ENUM_LETTER_DOT_PATTERN, text)

\* a variant that compares with the margin alone
Indented_from_margin(heading, page_width) == 10 * heading.x_pos > page_width

\* heading['x_pos'] > page_width * 0.1 + 30
Indented(heading, page_width) == 10 * heading.x_pos > page_width + 300

\* a variant that tests the two-level enumeration before the deeper ones
classify_heading_level_two_first(self, heading, all_headings_in_order, font_stats) ==
    IF Len(all_headings_in_order) = 0 THEN "H1"
    ELSE LET text == heading.text
             current_level_str == RankLevel(heading.font_size, all_headings_in_order)
         IN IF ReMatch(Cat(<<Bol, Star(SP), Plus(DIG), Str("."), Plus(DIG)>>), text)
            THEN (IF current_level_str # "H1" THEN "H2" ELSE current_level_str)
            ELSE IF ReMatch(ENUM3_PATTERN, text) THEN "H3"
            ELSE IF Indented(heading, PageWidthOf(self, heading.page - 1))
                 THEN (IF current_level_str = "H1" THEN "H2"
                       ELSE IF current_level_str = "H2" THEN "H3"
                       ELSE current_level_str)
            ELSE current_level_str

classify_heading_level(self, heading, all_headings_in_order, font_stats) ==
    IF Len(all_headings_in_order) = 0 THEN "H1"
    ELSE LET text == heading.text
             current_level_str == RankLevel(heading.font_size, all_headings_in_order)
             body_size == BodySizeOf(font_stats)
         IN IF ReMatch(ENUM3_PATTERN, text) THEN "H3"
            ELSE IF ReMatch(ENUM2_PATTERN, text)
                 THEN (IF current_level_str # "H1" THEN "H2" ELSE current_level_str)
            ELSE IF SingleLevelEnum(text)
                 THEN (IF 10 * heading.font_size >= 18 * body_size /\ current_level_str = "H1"
                       THEN "H1" ELSE "H2")
            ELSE IF LetterEnum(text) THEN "H3"
            ELSE IF Indented(heading, PageWidthOf(self, heading.page - 1))
                 THEN (IF current_level_str = "H1" THEN "H2"
                       ELSE IF current_level_str = "H2" THEN "H3"
                       ELSE current_level_str)
            ELSE current_level_str

\* the classification loop of process_pdf
OutlineEntries(self, merged_headings, font_stats) ==
    [k \in 1..Len(merged_headings) |->
        [level |-> classify_heading_level(self, merged_headings[k], merged_headings, font_stats),
         text |-> Strip(merged_headings[k].text),
         page |-> merged_headings[k].page - 1]]

(***************************************************************************)
(* extract_title                                                           *)
(***************************************************************************)
PLACEHOLDER_TITLE == "Document"

\* the first line, in (page, y_pos) order, whose score exceeds
\* HEADING_SCORE_THRESHOLD + 10; the placeholder when there is none
FallbackTitle(text_lines) ==
    LET high == SelectSeq(text_lines, LAMBDA b : b.heading_score > HEADING_SCORE_THRESHOLD + 10)
        high_score_headings == SpatialSort(high)
    IN IF Len(high_score_headings) > 0 THEN Strip(high_score_headings[1].text)
       ELSE PLACEHOLDER_TITLE

\* twice the distance of the line's horizontal centre from the page centre
CenterOffset2(line, page_width) == Abs(line.bbox[1] + line.bbox[3] - page_width)

\* whether candidate continues the title whose last line ends at bottom_y
ContinuesTitle(candidate, main, bottom_y, page_width) ==
    /\ candidate.page = main.page
    /\ 2 * Abs(candidate.font_size - main.font_size) < 3
    /\ candidate.y_pos - bottom_y < 2 * main.font_size
    /\ 100 * CenterOffset2(candidate, page_width) < 30 * page_width
    /\ ~MatchesNonContent(StrLower(candidate.text))

\* the loop over title_candidates[1:], left at the first line that does not
\* continue the title
TitleLinesFrom(cands, main, page_width) ==
    Loop(LAMBDA st : IF ContinuesTitle(cands[st.i], main, st.bottom_y, page_width)
                     THEN [i |-> st.i + 1, bottom_y |-> cands[st.i].bbox[4],
                           title_lines |-> Append(st.title_lines, Strip(cands[st.i].text)),
                           stop |-> FALSE]
                     ELSE [st EXCEPT !.stop = TRUE],
         LAMBDA st : st.stop \/ st.i > Len(cands),
         Len(cands),
         [i |-> 2, bottom_y |-> main.bbox[4], title_lines |-> <<Strip(main.text)>>,
          stop |-> FALSE]).title_lines

extract_title(self, text_lines, font_stats) ==
    IF Len(text_lines) = 0 THEN PLACEHOLDER_TITLE
    ELSE LET first_page_relevant_lines ==
                 SelectSeq(text_lines, LAMBDA l : l.page = 1 /\ Len(Strip(l.text)) > 3)
         IN IF Len(first_page_relevant_lines) = 0 THEN FallbackTitle(text_lines)
            ELSE LET sizes == {first_page_relevant_lines[k].font_size :
                                  k \in 1..Len(first_page_relevant_lines)}
                     max_size == CHOOSE v \in sizes : \A w \in sizes : w <= v
                     at_max == SelectSeq(first_page_relevant_lines,
                                   LAMBDA l : l.font_size = max_size /\ l.y_pos < 200)
                     near_max == SelectSeq(first_page_relevant_lines,
                                   LAMBDA l : 10 * l.font_size >= 8 * max_size /\ l.y_pos < 200)
                     title_candidates == IF Len(at_max) > 0 THEN at_max ELSE near_max
                     page_width == PageWidthOf(self, 0)
                     sorted == StableSort(title_candidates,
                                   [k \in 1..Len(title_candidates) |->
                                       <<title_candidates[k].y_pos,
                                         CenterOffset2(title_candidates[k], page_width)>>])
                 IN IF Len(title_candidates) = 0 THEN PLACEHOLDER_TITLE
                    ELSE LET title_lines ==
                                 TitleLinesFrom(sorted, sorted[1], page_width)
                             title == Strip(CollapseWS(Join(title_lines)))
                         IN IF \/ Len(title) < 5
                               \/ ReMatch(BARE_NUMBER, title)
                               \/ MatchesNonContent(StrLower(title))
                            THEN FallbackTitle(text_lines)
                            ELSE IF title # "" THEN title ELSE PLACEHOLDER_TITLE

(***************************************************************************)
(* Documents of the model: what the layout API returns for them            *)
(***************************************************************************)
\* a line of one span; bold is bit 0 of flags, italic bit 1
Ln(text, x0, y0, x1, size, flags, color) ==
    TextLine(<<x0, y0, x1, y0 + size>>, <<Span(text, size, "Helvetica", flags, color)>>)

\* a block holding the given lines; its box spans them
Blk(lines) ==
    LET xs0 == {lines[k].bbox[1] : k \in 1..Len(lines)}
        ys0 == {lines[k].bbox[2] : k \in 1..Len(lines)}
        xs1 == {lines[k].bbox[3] : k \in 1..Len(lines)}
        ys1 == {lines[k].bbox[4] : k \in 1..Len(lines)}
        MinOf(S) == CHOOSE v \in S : \A w \in S : v <= w
        MaxOf(S) == CHOOSE v \in S : \A w \in S : v >= w
    IN TextBlock(<<MinOf(xs0), MinOf(ys0), MaxOf(xs1), MaxOf(ys1)>>, lines)

\* the page size of the documents, in points (A4)
A4W == 595
A4H == 842

\* body text: 12pt, regular, black, left margin
Body(text, y0) == Ln(text, 72, y0, 500, 12, 0, 0)
\* a bold heading line at the left margin
Head1(text, y0, size) == Ln(text, 72, y0, 400, size, 1, 0)

DigitStr == <<"0", "1", "2", "3", "4", "5", "6", "7", "8", "9">>
RECURSIVE NatStr(_)
\* str(n)
NatStr(n) == IF n < 10 THEN DigitStr[n + 1] ELSE NatStr(n \div 10) \o DigitStr[(n % 10) + 1]

\* Report: three pages, headings out of order in the block list, a two-line
\* heading, a running header on two of the three pages
DocReport ==
    [pages |-> <<
        Page(A4W, A4H, <<
            Blk(<<Body("This paragraph explains the report in detail.", 300)>>),
            Blk(<<Head1("2. Methods", 260, 18)>>),
            Blk(<<Head1("Annual Report", 20, 14)>>),
            Blk(<<Head1("1. Introduction", 100, 18)>>),
            ImageBlock(<<72, 400, 300, 500>>),
            Blk(<<Body("Another paragraph follows the first one.", 130)>>) >>),
        Page(A4W, A4H, <<
            Blk(<<Head1("Annual Report", 20, 14)>>),
            Blk(<<Head1("Results And", 100, 18), Head1("Discussion", 120, 18)>>),
            Blk(<<Body("The results are discussed in this part.", 150)>>) >>),
        Page(A4W, A4H, <<
            Blk(<<Head1("3. Conclusion", 100, 18)>>),
            Blk(<<Body("12", 800)>>) >>) >>]

\* Memo: one page of the given width, a title, one heading, a paragraph and a
\* last line at footer_y (inside or outside the footer zone)
DocMemo(width, footer_y) ==
    [pages |-> <<
        Page(width, A4H, <<
            Blk(<<Head1("Project Memo", 60, 24)>>),
            Blk(<<Head1("Scope", 150, 16)>>),
            Blk(<<Body("The scope of the work is described here.", 180)>>),
            Blk(<<Body("Quarterly staff bulletin", footer_y)>>) >>) >>]

\* nothing survives the redundancy filter
DocEmpty ==
    [pages |-> << Page(A4W, A4H, << Blk(<<Body("12", 800), Body("Page 1", 810)>>) >>) >>]

\* the largest page count and the most copies of the header on a page
MaxPages == 14
MaxCopies == 3

\* n pages, each with the same header line copies times in one 5pt band of the
\* header zone, and a paragraph
DocHF(n, copies) ==
    [pages |-> [p \in 1..n |->
        Page(A4W, A4H, <<
            Blk([k \in 1..copies |-> Head1("Quarterly Review", 19 + k, 14)]),
            Blk(<<Body("The text of this page follows here.", 200)>>) >>)]]

\* the lines of a page of DocCap, and how many lines beyond the cap it has
LinesPerPage == 18
CapSlack == 2

\* the top of the k-th line of DocCap: 40pt apart; in the variant "pair" the
\* second line follows the first at merging distance
CapLineTop(k, variant) ==
    IF variant = "pair" /\ k = 2 THEN 89 ELSE 60 + 40 * ((k - 1) % LinesPerPage)

\* the text of the k-th line: in the variant "dup" the lines 2 and 3 repeat line 1
CapLineText(k, variant) ==
    "Section " \o NatStr(IF variant = "dup" /\ k \in {2, 3} THEN 1 ELSE k)

\* n bold heading lines, LinesPerPage to a page, each in a block of its own
DocCap(n, variant) ==
    [pages |-> [p \in 1..((n + LinesPerPage - 1) \div LinesPerPage) |->
        Page(A4W, A4H,
             [j \in 1..Min2(LinesPerPage, n - (p - 1) * LinesPerPage) |->
                 LET k == (p - 1) * LinesPerPage + j
                 IN Blk(<<Head1(CapLineText(k, variant), CapLineTop(k, variant), 14)>>)])]]

\* the left positions tried: LeftMargin + 10 * k for k up to MaxIndent
LeftMargin == 72
MaxIndent == 3

\* one page: "1. Introduction" at 24pt and "1.1 Background" at 18pt, at the left
\* positions x1 and x2, over 12pt paragraphs
DocLevel(x1, x2) ==
    [pages |-> <<
        Page(A4W, A4H, <<
            Blk(<<Ln("1. Introduction", x1, 100, x1 + 250, 24, 1, 0)>>),
            Blk(<<Body("The first paragraph describes the subject.", 140)>>),
            Blk(<<Ln("1.1 Background", x2, 200, x2 + 200, 18, 1, 0)>>),
            Blk(<<Body("The second paragraph gives the background.", 240),
                  Body("The third paragraph closes the page.", 260)>>) >>) >>]

\* the sentences tried: eight words, a period at the end
Sentences == <<
    "This is a plain sentence of eight words.",
    "1. Introduction to the scope of this doc.",
    "Results Of The Annual Survey Are Shown Below.",
    "1 introduction to the scope of this doc.",
    "THE RESULTS OF THIS SURVEY ARE SHOWN BELOW.",
    "1) introduction to the scope of this doc." >>

\* one page: 12pt paragraphs around a 12pt line with the given text, left
\* position, distance to the paragraph above, flags and colour
DocSentence(t, x, gap, flags, color) ==
    [pages |-> <<
        Page(A4W, A4H, <<
            Blk(<<Body("The paragraph before the line ends here.", 100)>>),
            Blk(<<Ln(Sentences[t], x, 112 + gap, 540, 12, flags, color)>>),
            Blk(<<Body("The paragraph after the line starts here.", 200)>>) >>) >>]

\* the largest number of paragraphs under the heading of DocScenario
MaxBodyLines == 12

\* one page: 24pt bold "1. Introduction" at (x, y) and nb 12pt paragraphs
DocScenario(nb, x, y) ==
    [pages |-> <<
        Page(A4W, A4H, <<
            Blk(<<Ln("1. Introduction", x, y, x + 250, 24, 1, 0)>>),
            Blk([k \in 1..nb |-> Body("A paragraph of the body text goes here.", 180 + 20 * k)])
        >>) >>]

\* two pages. Page 1: a block of two paragraphs lines at y = 100 and y = a2, a
\* block of one line at (bx, by), a page number at y = ry and a line of blanks
\* below it. Page 2: a page number above a paragraph line.
DocLayout(a2, by, ry, bx) ==
    [pages |-> <<
        Page(A4W, A4H, <<
            Blk(<<Body("The first block starts with this line.", 100),
                  Body("The first block ends with this line.", a2)>>),
            Blk(<<Body("12", ry)>>),
            Blk(<<Ln("Second block of the page", bx, by, bx + 200, 12, 0, 0)>>),
            Blk(<<Body("  ", ry + 20)>>) >>),
        Page(A4W, A4H, <<
            Blk(<<Body("The second page has one line.", 90)>>),
            Blk(<<Body("13", 50)>>) >>) >>]

\* the texts of the second line of DocSelect
SelectTexts == <<"Project Overview", "project   OVERVIEW", "Scope of the Project",
                 "1.", "A    B">>

\* two pages of bold 18pt headings and paragraphs. The second line of page 1
\* has the text SelectTexts[t], starts gap below the first heading and has the
\* given size and flags; page 2 repeats two heading texts.
DocSelect(t, gap, size, flags) ==
    [pages |-> <<
        Page(A4W, A4H, <<
            Blk(<<Head1("Project Overview", 100, 18)>>),
            Blk(<<Ln(SelectTexts[t], 72, 118 + gap, 400, size, flags, 0)>>),
            Blk(<<Body("The first paragraph describes the subject.", 300),
                  Body("The second paragraph gives the background.", 320),
                  Body("The third paragraph closes the page.", 340)>>) >>),
        Page(A4W, A4H, <<
            Blk(<<Head1("Summary of Findings", 150, 18)>>),
            Blk(<<Body("The last paragraph closes the document.", 200)>>),
            Blk(<<Head1("Scope of the Project", 400, 18)>>),
            Blk(<<Head1("Project Overview", 600, 18)>>) >>) >>]

\* two pages of 12pt paragraphs, nb of them on page 1 and one on page 2, and the
\* bold heading "Project Overview" of the given size at top y on the given page
DocBonus(size, y, page, nb) ==
    LET heading == Blk(<<Head1("Project Overview", y, size)>>)
        body1 == Blk([k \in 1..nb |-> Body("A paragraph of the body text goes here.", 180 + 20 * k)])
        body2 == Blk(<<Body("The last paragraph closes the document.", 450)>>)
    IN [pages |-> <<
          Page(A4W, A4H, (IF page = 1 THEN <<heading>> ELSE <<>>) \o <<body1>>),
          Page(A4W, A4H, (IF page = 2 THEN <<heading>> ELSE <<>>) \o <<body2>>) >>]

\* the lines at the top of the first page of DocTitle: a title, bare numbers,
\* two lines that read "Contact Information Sheet" together, and none
TitleTops == << <<"Annual Report of the Board">>, <<"1234.">>, <<"123.">>,
                <<"Contact", "Information Sheet">>, <<>> >>

\* two pages. Page 1: the bold centred lines TitleTops[t] of the given size from
\* y downwards, and paragraphs; the 24pt heading "1. Introduction" is on page 1
\* (head = 1), on page 2 (head = 2) or absent (head = 0).
DocTitle(t, size, y, head) ==
    LET tops == [k \in 1..Len(TitleTops[t]) |->
                    Ln(TitleTops[t][k], 150, y + (k - 1) * (size + 6), 445, size, 1, 0)]
        heading == Blk(<<Ln("1. Introduction", 72, 400, 322, 24, 1, 0)>>)
        body1 == Blk(<<Body("The first paragraph describes the subject.", 450),
                       Body("The second paragraph gives the background.", 470)>>)
        body2 == Blk(<<Body("The last paragraph closes the document.", 450)>>)
        top == IF Len(tops) = 0 THEN <<>> ELSE <<Blk(tops)>>
    IN [pages |-> <<
          Page(A4W, A4H, top \o (IF head = 1 THEN <<heading>> ELSE <<>>) \o <<body1>>),
          Page(A4W, A4H, (IF head = 2 THEN <<heading>> ELSE <<>>) \o <<body2>>) >>]

\* a document, from its identifier
DocOf(id) ==
    CASE id[1] = "report" -> DocReport
      [] id[1] = "memo" -> DocMemo(id[2], id[3])
      [] id[1] = "empty" -> DocEmpty
      [] id[1] = "hf" -> DocHF(id[2], id[3])
      [] id[1] = "cap" -> DocCap(id[2], id[3])
      [] id[1] = "level" -> DocLevel(id[2], id[3])
      [] id[1] = "sentence" -> DocSentence(id[2], id[3], id[4], id[5], id[6])
      [] id[1] = "scenario" -> DocScenario(id[2], id[3], id[4])
      [] id[1] = "layout" -> DocLayout(id[2], id[3], id[4], id[5])
      [] id[1] = "select" -> DocSelect(id[2], id[3], id[4], id[5])
      [] id[1] = "title" -> DocTitle(id[2], id[3], id[4], id[5])
      [] id[1] = "bonus" -> DocBonus(id[2], id[3], id[4], id[5])

MainDocs == {<<"report">>, <<"memo", A4W, 800>>, <<"empty">>}
MemoDocs == {<<"memo", A4W, 800>>, <<"memo", A4W, 700>>, <<"memo", 700, 800>>}
HFDocs == {<<"hf", n, c>> : n \in 1..MaxPages, c \in 1..MaxCopies}
CapDocs == {<<"cap", n, v>> : n \in (MAX_HEADINGS - 1)..(MAX_HEADINGS + CapSlack),
                              v \in {"plain", "dup", "pair"}}
LeftPositions == {LeftMargin + 10 * k : k \in 0..MaxIndent}
LevelDocs == {<<"level", x1, x2>> : x1 \in LeftPositions, x2 \in LeftPositions}
SentenceDocs == {<<"sentence", t, x, gap, flags, color>> :
                    t \in 1..Len(Sentences), x \in {LeftMargin, 200}, gap \in {2, 40},
                    flags \in {0, 2}, color \in {0, 255}}
ScenarioDocs == {<<"scenario", nb, x, y>> :
                    nb \in 10..MaxBodyLines, x \in {36, LeftMargin}, y \in {60, 100}}

LayoutDocs == {<<"layout", a2, by, ry, bx>> :
                  a2 \in {120, 300}, by \in {200, 340}, ry \in {150, 250, 400},
                  bx \in {LeftMargin, 300}}

SelectDocs == {<<"select", t, gap, size, flags>> :
                  t \in 1..Len(SelectTexts), gap \in {4, 30}, size \in {18, 20},
                  flags \in {0, 1}}

TitleDocs == {<<"title", t, size, y, head>> :
                 t \in 1..Len(TitleTops), size \in {16, 30}, y \in {60, 250},
                 head \in 0..2}

BonusDocs == {<<"bonus", size, y, page, nb>> :
                 size \in {20, 22, 24, 30}, y \in {60, 119, 120}, page \in {1, 2},
                 nb \in {2, 10}}

\* the number of files of a batch
MaxBatch == 3

RECURSIVE SeqsUpTo(_, _)
\* the sequences over S of length 1..n
SeqsUpTo(S, n) ==
    IF n = 0 THEN {}
    ELSE LET shorter == SeqsUpTo(S, n - 1)
         IN {<<x>> : x \in S} \cup {Append(q, x) : q \in shorter, x \in S}

\* the batches of one file
Singles(S) == {<<x>> : x \in S}

(***************************************************************************)
(* State                                                                   *)
(***************************************************************************)
VARIABLES
    batch,                    \* main: input_files, as document identifiers
    idx,                      \* main: the files processed so far
    outputs,                  \* main: the results written, one per file
    pc,                       \* the position in main / process_pdf
    _hf_candidates,           \* self._hf_candidates
    _total_pages_in_doc,      \* self._total_pages_in_doc
    _page_dimensions,         \* self._page_dimensions
    text_lines,               \* process_pdf: text_lines
    font_stats,               \* process_pdf: font_stats
    final_filtered_headings,  \* process_pdf: final_filtered_headings
    merged_headings,          \* process_pdf: merged_headings
    outline_entries,          \* process_pdf: outline_entries
    result,                   \* the value process_pdf returns
    failed,                   \* whether the except branch of process_pdf ran
    completed,                \* the stages of process_pdf completed in this run
    firstResult,              \* history: id -> the result of its first complete run
    scoreLog,                 \* history: the evaluations of calculate_heading_score
    call                      \* a call of one method on its own: arguments and outcome

vars == <<batch, idx, outputs, pc, _hf_candidates, _total_pages_in_doc, _page_dimensions,
          text_lines, font_stats, final_filtered_headings, merged_headings,
          outline_entries, result, failed, completed, firstResult, scoreLog, call>>

extractorVars == <<_hf_candidates, _total_pages_in_doc, _page_dimensions>>
localVars == <<text_lines, font_stats, final_filtered_headings, merged_headings,
               outline_entries>>
mainVars == <<batch, idx, outputs>>
historyVars == <<firstResult, scoreLog, call>>

Self == [hf |-> _hf_candidates, total |-> _total_pages_in_doc, dims |-> _page_dimensions]

CurrentId == batch[idx + 1]
CurrentDoc == DocOf(CurrentId)

NoStats == [empty |-> TRUE, mean_num |-> 0, mean_den |-> 1, median2 |-> 0, body_font_size |-> 0]
PlaceholderResult == [title |-> PLACEHOLDER_TITLE, outline |-> <<>>]

\* the stages inside the try block of process_pdf, in order
Stages == <<"open", "prepass", "extract", "select", "merge", "classify", "title">>
TryStages == {Stages[k] : k \in 1..Len(Stages)}

\* no method is called on its own
NoCall == [op |-> "none", state |-> "ready"]

InitState(batches, calls) ==
    /\ batch \in batches
    /\ idx = 0
    /\ outputs = <<>>
    /\ pc = "idle"
    /\ _hf_candidates = NewExtractor.hf
    /\ _total_pages_in_doc = NewExtractor.total
    /\ _page_dimensions = NewExtractor.dims
    /\ text_lines = <<>>
    /\ font_stats = NoStats
    /\ final_filtered_headings = <<>>
    /\ merged_headings = <<>>
    /\ outline_entries = <<>>
    /\ result = PlaceholderResult
    /\ failed = FALSE
    /\ completed = {}
    /\ firstResult = EmptyMap
    /\ scoreLog = {}
    /\ call \in calls

InitWith(batches) == InitState(batches, {NoCall})

Init == InitWith(SeqsUpTo(MainDocs, MaxBatch))
InitScore == InitWith(SeqsUpTo(MemoDocs, MaxBatch))
InitHF == InitWith(Singles(HFDocs))
InitCap == InitWith(Singles(CapDocs))
InitLevel == InitWith(Singles(LevelDocs))
InitSentence == InitWith(Singles(SentenceDocs))
InitScenario == InitWith(Singles(ScenarioDocs))
InitLayout == InitWith(Singles(LayoutDocs))
InitSelect == InitWith(Singles(SelectDocs))
InitTitle == InitWith(Singles(TitleDocs))
InitBonus == InitWith(Singles(BonusDocs))

(***************************************************************************)
(* Actions: main and the stages of process_pdf                             *)
(***************************************************************************)
\* the extractor's fields become those of self
SetExtractor(self) ==
    /\ _hf_candidates' = self.hf
    /\ _total_pages_in_doc' = self.total
    /\ _page_dimensions' = self.dims

\* main takes the next file and calls process_pdf, which resets the state
StartDocument ==
    /\ pc = "idle"
    /\ idx < Len(batch)
    /\ SetExtractor(_reset_state(Self))
    /\ text_lines' = <<>>
    /\ font_stats' = NoStats
    /\ final_filtered_headings' = <<>>
    /\ merged_headings' = <<>>
    /\ outline_entries' = <<>>
    /\ result' = PlaceholderResult
    /\ failed' = FALSE
    /\ completed' = {}
    /\ pc' = "open"
    /\ UNCHANGED <<mainVars, historyVars>>

\* doc = fitz.open(pdf_path)
OpenDocument ==
    /\ pc = "open"
    /\ completed' = completed \cup {"open"}
    /\ pc' = "prepass"
    /\ UNCHANGED <<mainVars, extractorVars, localVars, result, failed, historyVars>>

\* self._pre_process_for_hf_detection(doc)
PreProcess ==
    /\ pc = "prepass"
    /\ SetExtractor(_pre_process_for_hf_detection(Self, CurrentDoc))
    /\ completed' = completed \cup {"prepass"}
    /\ pc' = "extract"
    /\ UNCHANGED <<mainVars, localVars, result, failed, historyVars>>

\* a variant in which the exception leaves process_pdf and ends main
AfterFailure_abort == "aborted"

\* the except branch of process_pdf returns to main
AfterFailure == "done"

\* a variant that returns the outline built so far
FailureResult_partial(outline) == [title |-> PLACEHOLDER_TITLE, outline |-> outline]

\* what the except branch of process_pdf returns, whatever outline was built
FailureResult(outline) == PlaceholderResult

\* what one evaluation of calculate_heading_score read and returned
ScoreEntry(self, line, avg) ==
    [features |-> [k \in (DOMAIN line) \ {"heading_score"} |-> line[k]],
     avg |-> avg,
     hf |-> self.hf,
     dims |-> self.dims,
     score |-> line.heading_score]

\* whether the extraction raises: calculate_heading_score does for the first
\* line that survives the redundancy filter
ExtractionRaises(self, doc) ==
    /\ AvgDocFontSize(doc).num <= 0
    /\ \E r \in AllLineRefs(doc) :
          /\ LineText(LineAt(doc, r)) # ""
          /\ ~_is_redundant_line(self, LineText(LineAt(doc, r)), LineAt(doc, r).bbox[2],
                                 LineAt(doc, r).bbox[4], r[1])
          /\ calculate_heading_score_raises([text |-> LineText(LineAt(doc, r))],
                                            AvgDocFontSize(doc))

\* the stage after the extraction returned lines: the early return when no
\* line survives; font_stats = self.analyze_font_statistics(text_lines)
Extracted(lines, avg) ==
    /\ text_lines' = lines
    /\ scoreLog' = scoreLog \cup {ScoreEntry(Self, lines[k], avg) : k \in 1..Len(lines)}
    /\ completed' = completed \cup {"extract"}
    /\ failed' = FALSE
    /\ IF Len(lines) = 0
       THEN /\ result' = PlaceholderResult
            /\ pc' = "done"
            /\ font_stats' = font_stats
       ELSE /\ font_stats' = analyze_font_statistics(lines)
            /\ pc' = "select"
            /\ result' = result

\* text_lines = self.extract_text_lines_with_features(doc) and what follows it
ExtractLines ==
    /\ pc = "extract"
    /\ IF ExtractionRaises(Self, CurrentDoc)
       THEN /\ result' = FailureResult(outline_entries)
            /\ failed' = TRUE
            /\ pc' = AfterFailure
            /\ UNCHANGED <<text_lines, font_stats, completed, scoreLog>>
       ELSE Extracted(extract_text_lines_with_features(Self, CurrentDoc),
                      AvgDocFontSize(CurrentDoc))
    /\ UNCHANGED <<mainVars, extractorVars, final_filtered_headings, merged_headings,
                   outline_entries, firstResult, call>>

\* the threshold filter, the two sorts and the selection loop
SelectCandidates ==
    /\ pc = "select"
    /\ final_filtered_headings' = SelectHeadings(text_lines)
    /\ completed' = completed \cup {"select"}
    /\ pc' = "merge"
    /\ UNCHANGED <<mainVars, extractorVars, text_lines, font_stats, merged_headings,
                   outline_entries, result, failed, historyVars>>

\* merged_headings = self.merge_multiline_headings(...); merged_headings.sort(...)
MergeHeadings ==
    /\ pc = "merge"
    /\ merged_headings' = SortByPageTop(merge_multiline_headings(final_filtered_headings))
    /\ completed' = completed \cup {"merge"}
    /\ pc' = "classify"
    /\ UNCHANGED <<mainVars, extractorVars, text_lines, font_stats, final_filtered_headings,
                   outline_entries, result, failed, historyVars>>

\* the classification loop
ClassifyLevels ==
    /\ pc = "classify"
    /\ outline_entries' = OutlineEntries(Self, merged_headings, font_stats)
    /\ completed' = completed \cup {"classify"}
    /\ pc' = "title"
    /\ UNCHANGED <<mainVars, extractorVars, text_lines, font_stats, final_filtered_headings,
                   merged_headings, result, failed, historyVars>>

\* title = self.extract_title(text_lines, font_stats); return {title, outline}
ExtractTitle ==
    /\ pc = "title"
    /\ result' = [title |-> extract_title(Self, text_lines, font_stats),
                  outline |-> outline_entries]
    /\ completed' = completed \cup {"title"}
    /\ pc' = "done"
    /\ UNCHANGED <<mainVars, extractorVars, localVars, failed, historyVars>>

\* an exception at any point of the try block (the layout API fails, memory
\* runs out): the except branch returns
Fail ==
    /\ pc \in TryStages
    /\ result' = FailureResult(outline_entries)
    /\ failed' = TRUE
    /\ pc' = AfterFailure
    /\ UNCHANGED <<mainVars, extractorVars, localVars, completed, historyVars>>

\* main writes the result and goes on to the next file
WriteResult ==
    /\ pc = "done"
    /\ outputs' = Append(outputs, result)
    /\ firstResult' =
          IF failed \/ CurrentId \in DOMAIN firstResult THEN firstResult
          ELSE [d \in (DOMAIN firstResult) \cup {CurrentId} |->
                   IF d = CurrentId THEN result ELSE firstResult[d]]
    /\ idx' = idx + 1
    /\ pc' = "idle"
    /\ UNCHANGED <<batch, extractorVars, localVars, result, failed, completed, scoreLog,
                   call>>

Next ==
    \/ StartDocument
    \/ OpenDocument
    \/ PreProcess
    \/ ExtractLines
    \/ SelectCandidates
    \/ MergeHeadings
    \/ ClassifyLevels
    \/ ExtractTitle
    \/ Fail
    \/ WriteResult

\* batches of reports, memos and empty documents
Spec == Init /\ [][Next]_vars
\* batches of memos of two page widths, with and without a footer-zone line
SpecScore == InitScore /\ [][Next]_vars
\* one document with a running header
SpecHF == InitHF /\ [][Next]_vars
\* one document with about MAX_HEADINGS heading lines
SpecCap == InitCap /\ [][Next]_vars
\* one document with the headings "1." and "1.1"
SpecLevel == InitLevel /\ [][Next]_vars
\* one document with an eight-word sentence among the paragraphs
SpecSentence == InitSentence /\ [][Next]_vars
\* one document with the heading "1. Introduction" over paragraphs
SpecScenario == InitScenario /\ [][Next]_vars

\* one document with blocks that overlap vertically, page numbers and blank lines
SpecLayout == InitLayout /\ [][Next]_vars

\* one document with repeated, short and closely set heading candidates
SpecSelect == InitSelect /\ [][Next]_vars

\* one document with a title, a rejected title or no title at the top of page 1
SpecTitle == InitTitle /\ [][Next]_vars

\* one document with a heading of several sizes near the top of a page
SpecBonus == InitBonus /\ [][Next]_vars

\* batches of memos and empty documents
LiveDocs == {<<"memo", A4W, 800>>, <<"empty">>}
\* the number of files of these batches
MaxLiveBatch == 2
InitLive == InitWith(SeqsUpTo(LiveDocs, MaxLiveBatch))

\* the positions of main and process_pdf
PcValues == {"idle", "done"} \cup TryStages

\* main moves on to another position: possible exactly where Next is, and every
\* step of Next is one
Advance ==
    /\ pc \in PcValues
    /\ pc = "idle" => idx < Len(batch)
    /\ pc' \in PcValues \ {pc}

\* main runs on: where it can move on it does (every stage of process_pdf is a
\* loop over the finitely many pages and lines of the document); with
\* [][Next]_vars this is WF_vars(Next)
SpecLive == InitLive /\ [][Next]_vars /\ WF_pc(Advance)

\* what process_pdf returns for doc on a newly constructed extractor when no
\* stage fails
FreshRun(doc) ==
    LET self == _pre_process_for_hf_detection(NewExtractor, doc)
        lines == extract_text_lines_with_features(self, doc)
    IN IF Len(lines) = 0 THEN PlaceholderResult
       ELSE LET stats == analyze_font_statistics(lines)
                merged == SortByPageTop(merge_multiline_headings(SelectHeadings(lines)))
            IN [title |-> extract_title(self, lines, stats),
                outline |-> OutlineEntries(self, merged, stats)]

\* a run of process_pdf that went through every stage
Finished == pc = "done" /\ ~failed /\ completed = TryStages

(***************************************************************************)
(* Calls of one method on its own, on arguments drawn from bounded sets    *)
(***************************************************************************)
\* an extractor whose pre-pass recorded nothing, and one that recorded an A4 page
Selves == {NewExtractor, [NewExtractor EXCEPT !.total = 1, !.dims = (0 :> <<A4W, A4H>>)]}

\* mean font sizes: 0 (no size known), 12 and 12.5
CallAvgs == {[num |-> 0, den |-> 1], [num |-> 12, den |-> 1], [num |-> 25, den |-> 2]}
\* font sizes of a line: 0 is what a span without a size gives
CallSizes == {0, 12, 24}
CallTexts == {"", "1. Introduction", "Summary of the work"}

\* the record of a bold line at the left margin of the first page, before scoring
CallLine(text, size, avg) == LineFeatures(Ln(text, 72, 100, 400, size, 1, 0), 0, 0, 0, avg)

\* the scored records of two such lines of a document with a mean font size of 12
CallHeadings(self, size) ==
    LET avg == [num |-> 12, den |-> 1]
    IN <<WithScore(self, CallLine("1. Introduction", size, avg), avg),
         WithScore(self, [CallLine("Summary of the work", 12, avg)
                             EXCEPT !.bbox = <<72, 130, 400, 142>>, !.y_pos = 130,
                                    !.seq_idx = 1, !.whitespace_above = 18], avg)>>

\* the lists used as arguments: empty, one line, two lines
CallLists(self, size) ==
    {<<>>, SubSeq(CallHeadings(self, size), 1, 1), CallHeadings(self, size)}

\* the font statistics used as arguments: the empty ones and those of two lines
CallStats(self, size) == {NoStats, analyze_font_statistics(CallHeadings(self, size))}

Call(op, self, args) ==
    [op |-> op, state |-> "ready", self |-> self, args |-> args, value |-> <<>>]

ScoreCalls ==
    {Call("calculate_heading_score", self,
          [line_data |-> CallLine(t, size, avg), avg_doc_font_size |-> avg]) :
        self \in Selves, t \in CallTexts, size \in CallSizes, avg \in CallAvgs}

ClassifyCalls ==
    UNION {{Call("classify_heading_level", self,
                 [heading |-> CallHeadings(self, size)[1], all_headings_in_order |-> hs,
                  font_stats |-> fs]) :
               hs \in CallLists(self, size), fs \in CallStats(self, size)} :
           self \in Selves, size \in CallSizes}

MergeCalls ==
    UNION {{Call("merge_multiline_headings", self, [headings |-> hs]) :
               hs \in CallLists(self, size)} :
           self \in Selves, size \in CallSizes}

TitleCalls ==
    UNION {{Call("extract_title", self, [text_lines |-> hs, font_stats |-> fs]) :
               hs \in CallLists(self, size), fs \in CallStats(self, size)} :
           self \in Selves, size \in CallSizes}

Ready(op) == call.op = op /\ call.state = "ready"
Returned(v) == [call EXCEPT !.state = "returned", !.value = v]
Raised == [call EXCEPT !.state = "raised"]

\* self.calculate_heading_score(line_data, avg_doc_font_size)
CallScore ==
    /\ Ready("calculate_heading_score")
    /\ call' = IF calculate_heading_score_raises(call.args.line_data,
                                                 call.args.avg_doc_font_size)
               THEN Raised
               ELSE Returned(calculate_heading_score(call.self, call.args.line_data,
                                                     call.args.avg_doc_font_size))
    /\ UNCHANGED <<mainVars, extractorVars, localVars, pc, result, failed, completed,
                   firstResult, scoreLog>>

\* self.classify_heading_level(heading, all_headings_in_order, font_stats): no
\* statement of it fails on a line record
CallClassify ==
    /\ Ready("classify_heading_level")
    /\ call' = Returned(classify_heading_level(call.self, call.args.heading,
                                               call.args.all_headings_in_order,
                                               call.args.font_stats))
    /\ UNCHANGED <<mainVars, extractorVars, localVars, pc, result, failed, completed,
                   firstResult, scoreLog>>

\* self.merge_multiline_headings(headings): no statement of it fails on line
\* records
CallMerge ==
    /\ Ready("merge_multiline_headings")
    /\ call' = Returned(merge_multiline_headings(call.args.headings))
    /\ UNCHANGED <<mainVars, extractorVars, localVars, pc, result, failed, completed,
                   firstResult, scoreLog>>

\* self.extract_title(text_lines, font_stats): no statement of it fails on line
\* records
CallTitle ==
    /\ Ready("extract_title")
    /\ call' = Returned(extract_title(call.self, call.args.text_lines,
                                      call.args.font_stats))
    /\ UNCHANGED <<mainVars, extractorVars, localVars, pc, result, failed, completed,
                   firstResult, scoreLog>>

\* the characters of the short texts tried, and their largest length
TokenChars == <<"1", "a", "I", ".", "(", ")", "-", "*", "+", "_", " ">>
MaxTokenLen == 2

RECURSIVE TokensOfLen(_)
\* the texts of exactly n characters of TokenChars
TokensOfLen(n) ==
    IF n = 0 THEN {""}
    ELSE {t \o TokenChars[k] : t \in TokensOfLen(n - 1), k \in 1..Len(TokenChars)}

\* longer texts of the forms of the short-line rule and around its length limit
MoreTokens ==
    {"(a)", "(I)", "II.", "IV.", "12.", "123.", "1.1", "---", "***", "- -", "a.b", "12",
     "123", "1234", "12345", "1234.", "Note", "Notes", "Part", "(a) b", "Page", "xiv"}

Tokens == UNION {TokensOfLen(n) : n \in 1..MaxTokenLen} \cup MoreTokens

\* a line in the middle of the first page
RedundantCalls ==
    {Call("_is_redundant_line", self,
          [text |-> t, y_top |-> 400, y_bottom |-> 412, page_num |-> 0]) :
        self \in Selves, t \in Tokens}

\* self._is_redundant_line(line_text, y_top, y_bottom, page_num)
CallRedundant ==
    /\ Ready("_is_redundant_line")
    /\ call' = Returned(_is_redundant_line(call.self, call.args.text, call.args.y_top,
                                           call.args.y_bottom, call.args.page_num))
    /\ UNCHANGED <<mainVars, extractorVars, localVars, pc, result, failed, completed,
                   firstResult, scoreLog>>

\* the first, second and third line of the lists merged on their own
MergeTexts1 == <<"Overview of the Project", "Overview of the Project.",
                 "Results of Section 1.",
                 "What we do and how we do it is up to us as far as we can see it in the run of a day">>
MergeTexts2 == <<"and its Main Results", "2. Main Results",
                 "so we go on and on to do it as we see fit in so far as it is up to us all to do">>
MergeText3 == "for the Coming Year"

\* the scored record of a line of a document with a mean font size of 12
MergeLine(text, page, y, size, flags, seq_idx) ==
    LET avg == [num |-> 12, den |-> 1]
        self == [NewExtractor EXCEPT !.total = 2,
                                     !.dims = (0 :> <<A4W, A4H>>) @@ (1 :> <<A4W, A4H>>)]
    IN WithScore(self, LineFeatures(Ln(text, 72, y, 400, size, flags, 0), page - 1, 0,
                                    seq_idx, avg), avg)

\* three candidates: the first of size1 at the top of page 1; the second on page2,
\* near the first (10 below it) or at 1.5 times size1 below it, dsize larger;
\* the third 10 below the second, one size smaller than it and not bold
MergeList(t1, flags1, size1, t2, page2, near, dsize, flags2) ==
    LET y2 == 100 + size1 + (IF near THEN 10 ELSE (3 * size1) \div 2)
        size2 == size1 + dsize
    IN <<MergeLine(MergeTexts1[t1], 1, 100, size1, flags1, 0),
         MergeLine(MergeTexts2[t2], page2, y2, size2, flags2, 1),
         MergeLine(MergeText3, page2, y2 + size2 + 10, size2 - 1, 0, 2)>>

MergeListCalls ==
    {Call("merge_multiline_headings", NewExtractor,
          [headings |-> MergeList(t1, flags1, size1, t2, page2, near, dsize, flags2)]) :
        t1 \in 1..Len(MergeTexts1), flags1 \in {0, 1}, size1 \in {18, 72},
        t2 \in 1..Len(MergeTexts2), page2 \in {1, 2}, near \in BOOLEAN,
        dsize \in {-1, 1, 2}, flags2 \in {0, 1}}

InitMerge == InitState({<<>>}, MergeListCalls)

\* the merge called on lists of three candidates
SpecMerge == InitMerge /\ [][CallMerge]_vars

\* the texts of the heading classified on its own: plain, numeric enumerations
\* of two and more levels (followed by a blank, by a period, or alone), and
\* single-level and lettered enumerations
ClassifyTexts == <<"Project Overview", "Summary of the Work", "1.1 Background",
                   "1.1.1 Details", "1.2.3.4 Notes", "1.1. Background", "1.1.1. Details",
                   "1.1.1", "(a) First Item", "a. First Item", "1 Introduction",
                   "IV Results">>

\* the other headings of the document: 28pt, 24pt, 24pt and 20pt
OtherHeadings ==
    <<MergeLine("Summary of Findings", 1, 200, 28, 1, 1),
      MergeLine("Scope of the Work", 1, 300, 24, 1, 2),
      MergeLine("Plan of the Work", 1, 400, 24, 1, 3),
      MergeLine("Closing Remarks", 1, 500, 20, 1, 4)>>

\* the bold heading classified, at left position x of page 1
ClassifyLine(text, x, size) ==
    [MergeLine(text, 1, 100, size, 1, 0) EXCEPT !.x_pos = x, !.bbox = <<x, 100, x + 300, 100 + size>>]

\* extractors that recorded no page, an A4 page and a page 1000 wide
ClassifySelves ==
    {NewExtractor, [NewExtractor EXCEPT !.total = 1, !.dims = (0 :> <<A4W, A4H>>)],
     [NewExtractor EXCEPT !.total = 1, !.dims = (0 :> <<1000, A4H>>)]}

\* the left positions tried: the margin and both sides of 10% + 30 of both widths
ClassifyLefts == {LeftMargin, 89, 90, 130, 131}

ClassifyListCalls ==
    {Call("classify_heading_level", self,
          [heading |-> ClassifyLine(ClassifyTexts[t], x, size),
           all_headings_in_order |->
               <<ClassifyLine(ClassifyTexts[t], x, size)>> \o SubSeq(OtherHeadings, 1, n),
           font_stats |-> NoStats]) :
        self \in ClassifySelves, t \in 1..Len(ClassifyTexts), x \in ClassifyLefts,
        size \in {18, 28}, n \in 0..Len(OtherHeadings)}

InitClassify == InitState({<<>>}, ClassifyListCalls)

\* the classification called on one heading among up to five
SpecClassify == InitClassify /\ [][CallClassify]_vars

InitTokens == InitState({<<>>}, RedundantCalls)

\* the redundancy test called on short texts
SpecTokens == InitTokens /\ [][CallRedundant]_vars

NextCalls ==
    \/ CallScore
    \/ CallClassify
    \/ CallMerge
    \/ CallTitle

InitCalls == InitState({<<>>}, ScoreCalls \cup ClassifyCalls \cup MergeCalls \cup TitleCalls)

\* the scoring, classification, merging and title methods called on their own
SpecCalls == InitCalls /\ [][NextCalls]_vars

(***************************************************************************)
(* Properties                                                              *)
(***************************************************************************)
\* C1: the outline process_pdf returns is in non-decreasing (page, top y)
\* order. The outline entries are made from merged_headings one by one, in
\* order, so the top y of an entry is that of the merged heading at its index;
\* of two consecutive ones the earlier has a smaller page, or the same page and
\* a top y that is not larger.
C1_OutlineSorted ==
    /\ Len(result.outline) > 0 => result.outline = outline_entries
    /\ Len(outline_entries) > 0 =>
          /\ Len(outline_entries) = Len(merged_headings)
          /\ \A k \in 1..Len(outline_entries) :
                /\ outline_entries[k].page = merged_headings[k].page - 1
                /\ outline_entries[k].text = Strip(merged_headings[k].text)
    /\ \A k \in 1..(Len(merged_headings) - 1) :
          \/ merged_headings[k].page < merged_headings[k + 1].page
          \/ /\ merged_headings[k].page = merged_headings[k + 1].page
             /\ merged_headings[k].bbox[2] <= merged_headings[k + 1].bbox[2]

\* a returned outline with a step to a later page and a step down a page
C1_Witness ==
    /\ Finished
    /\ \E k \in 1..(Len(result.outline) - 1) :
          result.outline[k].page < result.outline[k + 1].page
    /\ \E k \in 1..(Len(merged_headings) - 1) :
          /\ merged_headings[k].page = merged_headings[k + 1].page
          /\ merged_headings[k].bbox[2] < merged_headings[k + 1].bbox[2]

\* C2: a line whose normalized text, y-bucket and top-zone flag are those of a
\* header/footer-zone line that occurs on at least 3 pages and on at least 75%
\* of the document's pages is classified redundant and is not in the outline,
\* whatever the page count (3 or more, also beyond the 10 pages of the census).
C2_RepeatedHeaderSuppressed ==
    Finished =>
        LET doc == CurrentDoc
            refs == AllLineRefs(doc)
            TopOf(r) == LineAt(doc, r).bbox[2]
            HeightOf(r) == doc.pages[r[1] + 1].height
            keyOf == Table([r \in refs |->
                        HFKey(LineText(LineAt(doc, r)), TopOf(r), InTopZone(TopOf(r), HeightOf(r)))])
            zone == {r \in refs :
                        /\ LineText(LineAt(doc, r)) # ""
                        /\ \/ InTopZone(TopOf(r), HeightOf(r))
                           \/ InBottomZone(LineAt(doc, r).bbox[4], HeightOf(r))}
            pagesOf == Table([r \in refs |-> {z[1] : z \in {y \in zone : keyOf[y] = keyOf[r]}}])
        IN \A r \in refs :
              (/\ Len(doc.pages) >= 3
               /\ Cardinality(pagesOf[r]) >= 3
               /\ 100 * Cardinality(pagesOf[r]) >= 75 * Len(doc.pages))
              => /\ _is_redundant_line(Self, LineText(LineAt(doc, r)), TopOf(r),
                                       LineAt(doc, r).bbox[4], r[1])
                 /\ \A k \in 1..Len(result.outline) :
                       ~(/\ result.outline[k].page = r[1]
                         /\ result.outline[k].text = Strip(LineText(LineAt(doc, r))))

\* C3: in a document of fewer than 3 pages no census key reaches a count of 3
\* and the repetition rule classifies no line as redundant.
C3_FewPagesNeverRepetitive ==
    (pc # "idle" /\ "prepass" \in completed /\ Len(CurrentDoc.pages) < 3) =>
        /\ \A key \in DOMAIN _hf_candidates :
              _hf_candidates[key] < HF_MIN_PAGES_FOR_REPETITION
        /\ \A r \in AllLineRefs(CurrentDoc) :
              ~IsRepetitive(Self, LineText(LineAt(CurrentDoc, r)),
                            LineAt(CurrentDoc, r).bbox[2], r[1])

\* C4, as stated: a document with more than 150 lines of score >= 75 gets an
\* outline of exactly 150 entries.
C4_ExactlyCap ==
    LET raw == Cardinality({k \in 1..Len(text_lines) :
                               text_lines[k].heading_score >= HEADING_SCORE_THRESHOLD})
    IN (Finished /\ raw > MAX_HEADINGS) => Len(result.outline) = MAX_HEADINGS

\* C4, amended: the outline has at most 150 entries, in (page, top y) order;
\* a document with more than 150 lines of score >= 75 gets exactly 150 when
\* none of the first 150 of them, in (page, y) order, is rejected (a normalized
\* text shorter than 5 or met before, too close to the heading before it) or
\* merged with the next one.
C4_AtMostCap ==
    Finished =>
        LET cands == SpatialSort(HeadingCandidates(text_lines))
            norm == List([k \in 1..Len(cands) |-> NormText(cands[k].text)])
            first == 1..MAX_HEADINGS
            untouched ==
                /\ \A k \in first : Len(norm[k]) >= 5
                /\ Cardinality({norm[k] : k \in first}) = MAX_HEADINGS
                /\ \A k \in 1..(MAX_HEADINGS - 1) :
                      /\ ~TooClose(cands[k + 1], cands[k])
                      /\ MergeBreak(cands[k], cands[k + 1])
        IN /\ Len(result.outline) <= MAX_HEADINGS
           /\ Len(result.outline) = Len(merged_headings)
           /\ \A k \in 1..(Len(merged_headings) - 1) :
                 ~KeyLess(<<merged_headings[k + 1].page, merged_headings[k + 1].bbox[2]>>,
                          <<merged_headings[k].page, merged_headings[k].bbox[2]>>)
           /\ (Len(cands) > MAX_HEADINGS /\ untouched)
                 => Len(result.outline) = MAX_HEADINGS

\* more than 150 candidates, and an outline of exactly 150 entries
C4_Witness ==
    /\ Finished
    /\ Cardinality({k \in 1..Len(text_lines) :
                       text_lines[k].heading_score >= HEADING_SCORE_THRESHOLD}) > MAX_HEADINGS
    /\ Len(final_filtered_headings) = MAX_HEADINGS
    /\ Len(result.outline) = MAX_HEADINGS

\* C5: process_pdf carries no state from one document to the next. Every run
\* starts from the state of a new extractor; a run that does not fail returns
\* what a new extractor returns for the document, and what the first such run
\* on the same document returned, whatever was processed (or failed) before.
C5_NoStateBetweenDocuments ==
    /\ pc = "open" => Self = NewExtractor
    /\ (pc = "done" /\ ~failed) =>
          /\ result = FreshRun(CurrentDoc)
          /\ CurrentId \in DOMAIN firstResult => result = firstResult[CurrentId]

\* a second run on a document whose first run left census counts behind
C5_Witness ==
    /\ pc = "done" /\ ~failed
    /\ idx >= 1
    /\ CurrentId \in DOMAIN firstResult
    /\ Len(result.outline) > 0
    /\ DOMAIN _hf_candidates # {}

\* C6: a run in which a stage fails returns exactly the placeholder; a result
\* with another title or a non-empty outline comes from a run that completed
\* every stage.
C6_FailureGivesPlaceholder ==
    /\ (pc = "done" /\ failed) => result = PlaceholderResult
    /\ result # PlaceholderResult => (~failed /\ completed = TryStages)

\* a failure at the last stage, with an outline already built
C6_Witness ==
    /\ pc = "done" /\ failed
    /\ completed = TryStages \ {"title"}
    /\ Len(outline_entries) > 0
    /\ result = PlaceholderResult

\* C7: of two merged headings on one page, the one whose text starts with "1."
\* at the top font-size rank and at 1.8 times the body size or more is H1, and
\* the one whose text starts with "1.1" at the next rank is H2, wherever the
\* two start horizontally.
C7_EnumerationLevels ==
    Finished =>
        \A j \in 1..Len(merged_headings), k \in 1..Len(merged_headings) :
            LET h == merged_headings[j]
                g == merged_headings[k]
            IN (/\ h.page = g.page
                /\ ReMatch(Cat(<<Plus(DIG), Str("."), Plus(SP)>>), h.text)
                /\ RankLevel(h.font_size, merged_headings) = "H1"
                /\ 10 * h.font_size >= 18 * BodySizeOf(font_stats)
                /\ ReMatch(Cat(<<Plus(DIG), Str("."), Plus(DIG), Plus(SP)>>), g.text)
                /\ RankLevel(g.font_size, merged_headings) = "H2")
               => /\ outline_entries[j].level = "H1"
                  /\ outline_entries[k].level = "H2"

\* C8, as stated: a line of 8 words that ends with a period, is not bold and has
\* the body font size (no font-size bonus) scores below 75 and is not in the
\* outline, whatever its other features.
C8_SentenceBelowThreshold ==
    (pc # "idle" /\ "extract" \in completed) =>
        \A k \in 1..Len(text_lines) :
            LET l == text_lines[k]
            IN (/\ l.ends_with_period /\ l.word_count = 8 /\ ~l.is_bold
                /\ l.font_size = BodySizeOf(font_stats)
                /\ FontSizeScore(l, AvgDocFontSize(CurrentDoc)) = 0)
               => /\ l.heading_score < HEADING_SCORE_THRESHOLD
                  /\ \A e \in 1..Len(outline_entries) :
                        outline_entries[e].text # Strip(l.text)

\* C8, amended: such a line scores below 75 and is not in the outline unless
\* it both starts with an enumeration and matches a structural pattern.
C8_PlainSentenceBelowThreshold ==
    (pc # "idle" /\ "extract" \in completed) =>
        \A k \in 1..Len(text_lines) :
            LET l == text_lines[k]
            IN (/\ l.ends_with_period /\ l.word_count = 8 /\ ~l.is_bold
                /\ l.font_size = BodySizeOf(font_stats)
                /\ FontSizeScore(l, AvgDocFontSize(CurrentDoc)) = 0
                /\ ~(l.has_enum /\ MatchesHeadingPattern(l.text)))
               => /\ l.heading_score < HEADING_SCORE_THRESHOLD
                  /\ \A e \in 1..Len(outline_entries) :
                        outline_entries[e].text # Strip(l.text)

\* such a line with a cue word, title case, whitespace above and both
\* alignment bonuses: the penalty keeps it below the threshold
C8_Witness ==
    /\ Finished
    /\ \E k \in 1..Len(text_lines) :
          LET l == text_lines[k]
          IN /\ l.ends_with_period /\ l.word_count = 8 /\ ~l.is_bold
             /\ l.font_size = BodySizeOf(font_stats)
             /\ ~l.has_enum /\ l.has_cue /\ IsTitle(l.text)
             /\ l.whitespace_above >= 40
             /\ l.heading_score + 45 >= HEADING_SCORE_THRESHOLD
             /\ l.heading_score < HEADING_SCORE_THRESHOLD

\* C9: in a one-page document whose only large line is 24pt bold
\* "1. Introduction" at the top left (above y = 120, not indented), over 12pt
\* paragraphs, with a mean font size between 12.5 and 13.5: the line gets 50
\* for the font tier, 45 for bold, 35 for the enumeration, 30 for the pattern and
\* 25 for the first page, 185 or more in all; it is the only outline entry, at
\* level H1; and it is the title.
C9_IntroductionScenario ==
    Finished =>
        LET avg == AvgDocFontSize(CurrentDoc)
        IN \A k \in 1..Len(text_lines) :
              LET l == text_lines[k]
              IN (/\ Len(CurrentDoc.pages) = 1
                  /\ l.text = "1. Introduction" /\ l.font_size = 24 /\ l.is_bold
                  /\ l.y_pos < 120
                  /\ ~Indented(l, PageWidthOf(Self, 0))
                  /\ \A j \in 1..Len(text_lines) : j # k => text_lines[j].font_size = 12
                  /\ 2 * avg.num >= 25 * avg.den /\ 2 * avg.num <= 27 * avg.den)
                 => /\ FontSizeScore(l, avg) = 50
                    /\ BoldScore(l) = 45
                    /\ EnumScore(l) = 35
                    /\ PatternScore(l) = 30
                    /\ FirstPageScore(l, avg) = 25
                    /\ l.heading_score >= 50 + 45 + 35 + 30 + 25
                    /\ l.rel_font_size >= 180
                    /\ result.outline = <<[level |-> "H1", text |-> "1. Introduction", page |-> 0]>>
                    /\ result.title = "1. Introduction"

\* the scenario with a mean font size of exactly 13
C9_Witness ==
    /\ Finished
    /\ Len(CurrentDoc.pages) = 1
    /\ AvgDocFontSize(CurrentDoc).num = 13 * AvgDocFontSize(CurrentDoc).den
    /\ \E k \in 1..Len(text_lines) :
          /\ text_lines[k].text = "1. Introduction"
          /\ text_lines[k].font_size = 24
          /\ text_lines[k].rel_font_size = 185
          /\ text_lines[k].heading_score >= 185
    /\ Len(result.outline) = 1
    /\ result.title = "1. Introduction"

\* C10, as stated: two evaluations of calculate_heading_score with equal line
\* features and equal mean font size return the same value, whatever page
\* dimensions and census counts the extractor holds.
C10_ScoreFunctionOfFeatures ==
    \A e1 \in scoreLog, e2 \in scoreLog :
        (/\ e1.features = e2.features
         /\ e1.avg.num * e2.avg.den = e2.avg.num * e1.avg.den)
        => e1.score = e2.score

\* C10, amended: they return the same value when the stored width of the
\* line's page is the same too, whatever the census counts and the other
\* stored dimensions are.
C10_ScoreFunctionOfFeaturesAndWidth ==
    \A e1 \in scoreLog, e2 \in scoreLog :
        (/\ e1.features = e2.features
         /\ e1.avg.num * e2.avg.den = e2.avg.num * e1.avg.den
         /\ PageWidthOf([dims |-> e1.dims], e1.features.page - 1)
                = PageWidthOf([dims |-> e2.dims], e2.features.page - 1))
        => e1.score = e2.score

\* two evaluations on the same line under different census counts
C10_Witness ==
    \E e1 \in scoreLog, e2 \in scoreLog :
        /\ e1.features = e2.features
        /\ e1.avg.num * e2.avg.den = e2.avg.num * e1.avg.den
        /\ e1.dims = e2.dims
        /\ e1.hf # e2.hf
        /\ e1.score = e2.score

\* C11: calculate_heading_score, classify_heading_level,
\* merge_multiline_headings and extract_title, called on any line records
\* (font size 0, mean font size 0, no page dimensions recorded, empty font
\* statistics and empty lists included), return a value and do not raise.
C11_RoutinesTotal ==
    call.op \in {"calculate_heading_score", "classify_heading_level",
                 "merge_multiline_headings", "extract_title"}
        => call.state # "raised"

\* the result of a run on a new extractor, for the documents of the batches
C12_Fresh == [id \in LiveDocs |-> FreshRun(DocOf(id))]

\* C12: main processes the files one at a time, in order, and writes one
\* result per file: the result of a run on a new extractor, or the placeholder
\* when the run failed. A failed run does not end the batch: after it, the
\* result of every file of the batch gets written.
C12_FailureIsolated ==
    /\ [](/\ Len(outputs) = idx
          /\ idx <= Len(batch)
          /\ \A k \in 1..Len(outputs) :
                outputs[k] \in {PlaceholderResult, C12_Fresh[batch[k]]})
    /\ failed ~> (pc = "idle" /\ Len(outputs) = Len(batch))
    /\ <>[](pc = "idle" /\ idx = Len(batch))

\* a batch whose first file failed and whose second file got its own outline
C12_Witness ==
    /\ pc = "idle" /\ idx = Len(batch) /\ Len(batch) >= 2
    /\ C12_Fresh[batch[1]] # PlaceholderResult
    /\ outputs[1] = PlaceholderResult
    /\ outputs[2] = C12_Fresh[batch[2]]
    /\ Len(outputs[2].outline) > 0

\* C13, as stated: a text whose trimmed length is below 5 is redundant unless
\* it has an accepted short-token form (digits with or without a period, a
\* letter in parentheses, one character and a period, a lone bullet); a text
\* of such a form is kept.
C13_ShortLineRule ==
    (call.op = "_is_redundant_line" /\ call.state = "returned"
     /\ Len(Strip(call.args.text)) < 5)
        => (call.value <=> ~IsShortToken(Strip(call.args.text)))

\* the trimmed text is digits followed by a period
C13_NumberDot(t) ==
    /\ Len(t) >= 2
    /\ CharAt(t, Len(t)) = "."
    /\ \A k \in 1..(Len(t) - 1) : CharAt(t, k) \in Digits

\* the trimmed text is a letter in parentheses, one word character followed by
\* a period, or one of the bullets * + -
C13_OtherShortForm(t) ==
    \/ Len(t) = 3 /\ CharAt(t, 1) = "(" /\ CharAt(t, 2) \in Letters /\ CharAt(t, 3) = ")"
    \/ Len(t) = 2 /\ CharAt(t, 1) \in WordChars /\ CharAt(t, 2) = "."
    \/ t \in {"*", "+", "-"}

\* C13, amended: a text whose trimmed length is below 5 is kept exactly when it
\* is digits followed by a period, a letter in parentheses, one word character
\* followed by a period, or a lone bullet; every other one is redundant, bare
\* digits (the page-number pattern) included.
C13_ShortLineRuleWithPeriod ==
    (call.op = "_is_redundant_line" /\ call.state = "returned"
     /\ Len(Strip(call.args.text)) < 5)
        => (~call.value <=> (\/ C13_NumberDot(Strip(call.args.text))
                             \/ C13_OtherShortForm(Strip(call.args.text))))

\* a bare number found redundant
C13_Witness ==
    /\ call.op = "_is_redundant_line" /\ call.state = "returned"
    /\ Strip(call.args.text) = "12"
    /\ IsShortToken("12")
    /\ call.value = TRUE

\* C14: the line records are in reading order and seq_idx follows it: of two
\* records, the one with the smaller seq_idx is on an earlier page, or on the
\* same page with a smaller top y, or on the same page and top y with a smaller
\* left x, however the blocks of a page are arranged.
C14_ReadingOrder ==
    /\ \A k \in 1..Len(text_lines) : text_lines[k].seq_idx = k - 1
    /\ \A j \in 1..Len(text_lines), k \in 1..Len(text_lines) :
          text_lines[j].seq_idx < text_lines[k].seq_idx
             => \/ text_lines[j].page < text_lines[k].page
                \/ /\ text_lines[j].page = text_lines[k].page
                   /\ text_lines[j].y_pos < text_lines[k].y_pos
                \/ /\ text_lines[j].page = text_lines[k].page
                   /\ text_lines[j].y_pos = text_lines[k].y_pos
                   /\ text_lines[j].x_pos < text_lines[k].x_pos

\* the lines with text of page p (1-based) of the document, in the order the
\* extraction visits them
C15_Visited(p) ==
    SelectSeq(PageLinesInOrder(CurrentDoc.pages[p]), LAMBDA l : LineText(l) # "")

\* whether rec is the record of the line l of page p
C15_RecordOf(rec, l, p) == rec.page = p /\ rec.bbox = l.bbox /\ rec.text = LineText(l)

\* C15: a redundant line has no line record, and the whitespace_above of a
\* record is max(0, its top y - the bottom y of the line with text visited just
\* before it on its page, redundant or not), or its top y when it is the first
\* line with text visited on the page.
C15_WhitespaceAbove ==
    (pc # "idle" /\ "extract" \in completed) =>
        \A p \in 1..Len(CurrentDoc.pages) :
            LET visited == C15_Visited(p)
            IN \A i \in 1..Len(visited) :
                  LET l == visited[i]
                      recs == {k \in 1..Len(text_lines) : C15_RecordOf(text_lines[k], l, p)}
                  IN IF _is_redundant_line(Self, LineText(l), l.bbox[2], l.bbox[4], p - 1)
                     THEN recs = {}
                     ELSE /\ Cardinality(recs) = 1
                          /\ \A k \in recs :
                                text_lines[k].whitespace_above =
                                   IF i = 1 THEN l.bbox[2]
                                   ELSE Max2(0, l.bbox[2] - visited[i - 1].bbox[4])

\* a record whose whitespace_above is measured from a redundant line, which lies
\* between it and the record before it
C15_Witness ==
    /\ pc # "idle" /\ "extract" \in completed
    /\ \E p \in 1..Len(CurrentDoc.pages) :
          \E i \in 2..Len(C15_Visited(p)) :
             LET l == C15_Visited(p)[i]
                 before == C15_Visited(p)[i - 1]
             IN /\ _is_redundant_line(Self, LineText(before), before.bbox[2],
                                      before.bbox[4], p - 1)
                /\ \E k \in 2..Len(text_lines) :
                      /\ C15_RecordOf(text_lines[k], l, p)
                      /\ text_lines[k - 1].page = p
                      /\ text_lines[k - 1].bbox[4] < before.bbox[2]
                      /\ text_lines[k].whitespace_above = l.bbox[2] - before.bbox[4]
                      /\ text_lines[k].whitespace_above > 0

\* the candidates in the order of the selection walk
C16_Walk == SpatialSort(HeadingCandidates(text_lines))

\* whether the k-th candidate of the walk is in final_filtered_headings
C16_Accepted(k) ==
    \E j \in 1..Len(final_filtered_headings) :
       final_filtered_headings[j].seq_idx = C16_Walk[k].seq_idx

\* the position in the walk of the heading accepted last before the k-th
\* candidate, 0 when there is none
C16_Previous(k) ==
    LET before == {j \in 1..(k - 1) : C16_Accepted(j)}
    IN IF before = {} THEN 0 ELSE CHOOSE j \in before : \A i \in before : i <= j

\* the k-th candidate is short
C16_Short(k) == Len(NormText(C16_Walk[k].text)) < 5

\* the k-th candidate repeats the normalised text of an accepted candidate
C16_Repeats(k) ==
    \E j \in 1..(k - 1) :
       C16_Accepted(j) /\ NormText(C16_Walk[j].text) = NormText(C16_Walk[k].text)

\* the k-th candidate is on the page of the heading accepted before it, less
\* than 0.8 of its font size below that heading's bottom, with a font size
\* less than 1.0 away and the same boldness
C16_Close(k) ==
    /\ C16_Previous(k) # 0
    /\ LET c == C16_Walk[k]
           last == C16_Walk[C16_Previous(k)]
       IN /\ c.page = last.page
          /\ 10 * (c.y_pos - last.bbox[4]) < 8 * c.font_size
          /\ c.font_size - last.font_size < 1
          /\ last.font_size - c.font_size < 1
          /\ c.is_bold = last.is_bold

\* C16: the selection walk rejects a candidate exactly when its normalised text
\* has fewer than five characters, or is the normalised text of an accepted
\* candidate, or the candidate is close to the heading accepted before it; the
\* accepted headings have pairwise distinct normalised texts of five or more
\* characters. (The walk ends when MAX_HEADINGS headings are accepted.)
C16_SelectionWalk ==
    (pc # "idle" /\ "select" \in completed) =>
        /\ \A k \in 1..Len(C16_Walk) :
              Cardinality({j \in 1..(k - 1) : C16_Accepted(j)}) < MAX_HEADINGS
                 => (~C16_Accepted(k) <=> (C16_Short(k) \/ C16_Repeats(k) \/ C16_Close(k)))
        /\ \A j \in 1..Len(final_filtered_headings) :
              /\ Len(NormText(final_filtered_headings[j].text)) >= 5
              /\ \E k \in 1..Len(C16_Walk) :
                    C16_Walk[k].seq_idx = final_filtered_headings[j].seq_idx
              /\ \A i \in 1..Len(final_filtered_headings) :
                    i # j => NormText(final_filtered_headings[i].text)
                                # NormText(final_filtered_headings[j].text)

\* a walk that rejects one candidate only for being close and another only for
\* repeating a text, and accepts candidates after them
C16_Witness ==
    /\ pc # "idle" /\ "select" \in completed
    /\ \E k \in 1..Len(C16_Walk) :
          ~C16_Accepted(k) /\ C16_Close(k) /\ ~C16_Short(k) /\ ~C16_Repeats(k)
    /\ \E k \in 1..Len(C16_Walk) :
          ~C16_Accepted(k) /\ C16_Repeats(k) /\ ~C16_Short(k) /\ ~C16_Close(k)
    /\ Len(final_filtered_headings) >= 3

\* the candidates of a merge call in (page, top y) order, and the headings it
\* returned
C17_Sorted == SortByPageTop(call.args.headings)
C17_Merged == call.value

\* the positions in C17_Sorted of the lines that start a heading
C17_Starts ==
    {i \in 1..Len(C17_Sorted) :
        \E j \in 1..Len(C17_Merged) : C17_Merged[j].seq_idx = C17_Sorted[i].seq_idx}

\* the position of the line that starts the heading holding line i
C17_StartOf(i) ==
    CHOOSE s \in C17_Starts : s <= i /\ \A r \in C17_Starts : r <= i => r <= s

\* the largest and the smallest number of a non-empty set
C17_Largest(S) == CHOOSE v \in S : \A w \in S : w <= v
C17_Smallest(S) == CHOOSE v \in S : \A w \in S : v <= w

RECURSIVE C17_Joined(_, _)
\* the texts of the lines s..e, joined by single spaces
C17_Joined(s, e) ==
    IF s = e THEN C17_Sorted[s].text
    ELSE C17_Joined(s, e - 1) \o " " \o C17_Sorted[e].text

RECURSIVE C17_Words(_, _)
\* the sum of the word counts of the lines s..e
C17_Words(s, e) ==
    IF s > e THEN 0 ELSE C17_Words(s, e - 1) + C17_Sorted[e].word_count

\* the heading made of the lines s..e, field by field
C17_Folded(s, e) ==
    LET lines == {C17_Sorted[k] : k \in s..e}
    IN [C17_Sorted[s] EXCEPT
          !.text = C17_Joined(s, e),
          !.bbox = <<C17_Smallest({l.bbox[1] : l \in lines}),
                     C17_Smallest({l.bbox[2] : l \in lines}),
                     C17_Largest({l.bbox[3] : l \in lines}),
                     C17_Largest({l.bbox[4] : l \in lines})>>,
          !.font_size = C17_Largest({l.font_size : l \in lines}),
          !.is_bold = \E l \in lines : l.is_bold,
          !.is_italic = \E l \in lines : l.is_italic,
          !.has_enum = \E l \in lines : l.has_enum,
          !.has_cue = \E l \in lines : l.has_cue,
          !.word_count = C17_Words(s, e),
          !.cap_ratio = Round2(UpperCount(C17_Joined(s, e)), Max2(Len(C17_Joined(s, e)), 1)),
          !.ends_with_period = C17_Sorted[e].ends_with_period,
          !.ends_with_colon = C17_Sorted[e].ends_with_colon,
          !.heading_score = C17_Largest({l.heading_score : l \in lines})]

\* the accumulator when line i is reached: the lines from the start of the
\* heading of line i - 1 up to line i - 1
C17_Accumulator(i) == C17_Folded(C17_StartOf(i - 1), i - 1)

\* the break conditions between the accumulator and the next line; the font of
\* the accumulator counts as not exceptionally large when it is below 1.5 times
\* itself, which is how the source tests it
C17_Breaks(acc, next_h) ==
    \/ acc.page # next_h.page
    \/ 2 * (next_h.bbox[2] - acc.bbox[4]) >= 3 * acc.font_size
    \/ acc.font_size - next_h.font_size >= 2
    \/ next_h.font_size - acc.font_size >= 2
    \/ acc.ends_with_period /\ ~ReMatch(ENDS_WITH_NUMBER_DOT, Strip(acc.text))
    \/ next_h.has_enum
    \/ acc.word_count > MAX_HEADING_WORD_COUNT + 5
          /\ next_h.word_count > MAX_HEADING_WORD_COUNT + 5
    \/ ~acc.is_bold /\ ~next_h.is_bold /\ 2 * acc.font_size < 3 * acc.font_size

C18_MergedRecord ==
    (call.op = "merge_multiline_headings" /\ call.state = "returned") =>
        /\ \A j \in 1..Len(C17_Merged) :
              \E s \in C17_Starts :
                 /\ C17_Sorted[s].seq_idx = C17_Merged[j].seq_idx
                 /\ LET later == {r \in C17_Starts : r > s}
                        e == IF later = {} THEN Len(C17_Sorted)
                             ELSE C17_Smallest(later) - 1
                    IN C17_Merged[j] = C17_Folded(s, e)
        /\ \A i \in 1..Len(call.args.headings) :
              LET h == call.args.headings[i]
              IN h = MergeLine(h.text, h.page, h.bbox[2], h.font_size,
                               IF h.is_bold THEN 1 ELSE 0, h.seq_idx)

\* a call that folded three lines into one heading: a bold line, a line of a
\* larger font and a line that is not bold
C18_Witness ==
    /\ call.op = "merge_multiline_headings" /\ call.state = "returned"
    /\ Len(C17_Sorted) = 3 /\ Len(C17_Merged) = 1
    /\ C17_Merged[1].text = C17_Joined(1, 3)
    /\ C17_Merged[1].font_size > C17_Sorted[1].font_size
    /\ C17_Merged[1].word_count > C17_Sorted[1].word_count
    /\ C17_Merged[1].bbox[4] = C17_Sorted[3].bbox[4]

\* the heading of a classification call, the headings it is ranked among and the
\* width of its page
C19_Heading == call.args.heading
C19_All == call.args.all_headings_in_order
C19_PageWidth ==
    IF (C19_Heading.page - 1) \in DOMAIN call.self.dims
    THEN call.self.dims[C19_Heading.page - 1][1] ELSE DEFAULT_PAGE_WIDTH

\* the level of the rank of the heading's font size among the distinct sizes
C19_RankMapLevel ==
    LET larger == {C19_All[k].font_size : k \in 1..Len(C19_All)}
                     \cap {v \in 0..200 : v > C19_Heading.font_size}
    IN IF larger = {} THEN "H1" ELSE IF Cardinality(larger) = 1 THEN "H2" ELSE "H3"

\* a classification call that has returned, for a heading that is one of the
\* headings it is ranked among
C19_Classified ==
    /\ call.op = "classify_heading_level" /\ call.state = "returned"
    /\ \E k \in 1..Len(C19_All) : C19_All[k] = C19_Heading

\* no enumeration override fires for the text
C19_NoOverride ==
    LET text == C19_Heading.text
    IN /\ ~ReMatch(ENUM3_PATTERN, text) /\ ~ReMatch(ENUM2_PATTERN, text)
       /\ ~SingleLevelEnum(text) /\ ~LetterEnum(text)

C19_Demoted(level) == IF level = "H1" THEN "H2" ELSE "H3"

\* C19: with no enumeration override, the level is the rank-map level of the
\* font size among the distinct sizes of all headings (largest H1, second H2,
\* third and smaller H3), demoted one step exactly when the left x exceeds 10%
\* of the page width plus 30.
C19_RankAndIndentation ==
    (C19_Classified /\ C19_NoOverride) =>
        call.value = IF 10 * C19_Heading.x_pos > C19_PageWidth + 300
                     THEN C19_Demoted(C19_RankMapLevel) ELSE C19_RankMapLevel

\* the largest heading, on a page 1000 wide, just past 10% + 30: demoted to H2
C19_Witness ==
    /\ C19_Classified /\ C19_NoOverride
    /\ C19_PageWidth = 1000 /\ C19_Heading.x_pos = 131
    /\ Len(C19_All) > 1 /\ C19_RankMapLevel = "H1"
    /\ call.value = "H2"

\* texts that start with a numeric enumeration of three or more levels, and of
\* two levels, before the blank that separates it from the words of the heading
C20_ThreeLevels ==
    Cat(<<Bol, Plus(DIG), Str("."), Plus(DIG), Str("."), Plus(DIG), DotNums, SP>>)
C20_TwoLevels == Cat(<<Bol, Plus(DIG), Str("."), Plus(DIG), SP>>)

C20_WitnessThree ==
    /\ C19_Classified /\ ReMatch(C20_ThreeLevels, C19_Heading.text)
    /\ C19_RankMapLevel = "H1" /\ Len(C19_All) > 1
    /\ 10 * C19_Heading.x_pos > C19_PageWidth + 300
    /\ call.value = "H3"

C21_Lettered ==
    Alt(<<Cat(<<Bol, Str("("), azAZ, Str(")"), SP>>),
          Cat(<<Bol, azAZ, Str("."), SP>>)>>)

\* C21: a heading whose text starts with a lettered enumeration, "(a) ..." or
\* "a. ...", is classified H3 whatever its font-size rank and left x are.
C21_LetteredIsH3 ==
    (C19_Classified /\ ReMatch(C21_Lettered, C19_Heading.text)) => call.value = "H3"

\* the same for the form "a. ..." alone
C21_LetterPeriodIsH3 ==
    (C19_Classified /\ ReMatch(Cat(<<Bol, azAZ, Str("."), SP>>), C19_Heading.text))
        => call.value = "H3"

\* the title candidates of extract_title: the first-page lines of more than 3
\* characters in the top 200 units, of the largest font size of such first-page
\* lines or, when there is none, of 80% of it, topmost and most centred first
C22_Candidates ==
    LET relevant == SelectSeq(text_lines, LAMBDA l : l.page = 1 /\ Len(Strip(l.text)) > 3)
        sizes == {relevant[k].font_size : k \in 1..Len(relevant)}
        at_max == SelectSeq(relevant, LAMBDA l : l.y_pos < 200
                                                   /\ \A v \in sizes : v <= l.font_size)
        near_max == SelectSeq(relevant, LAMBDA l : l.y_pos < 200
                                         /\ \A v \in sizes : 8 * v <= 10 * l.font_size)
        cands == IF Len(at_max) > 0 THEN at_max ELSE near_max
    IN StableSort(cands, [k \in 1..Len(cands) |->
                            <<cands[k].y_pos, CenterOffset2(cands[k], PageWidthOf(Self, 0))>>])

\* the text assembled from the candidates, empty when there is none
C22_Assembled ==
    IF Len(C22_Candidates) = 0 THEN ""
    ELSE Strip(CollapseWS(Join(TitleLinesFrom(C22_Candidates, C22_Candidates[1],
                                              PageWidthOf(Self, 0)))))

\* the assembled text is not accepted: shorter than 5 characters (empty
\* included), a bare number, or a match of a non-content pattern
C22_Rejected ==
    \/ Len(C22_Assembled) < 5
    \/ ReMatch(BARE_NUMBER, C22_Assembled)
    \/ MatchesNonContent(StrLower(C22_Assembled))

\* the lines whose score is greater than HEADING_SCORE_THRESHOLD + 10
C22_HighScore == {k \in 1..Len(text_lines) :
                     text_lines[k].heading_score > HEADING_SCORE_THRESHOLD + 10}

\* the text of the first of them in (page, top y) order, the placeholder when
\* there is none
C22_Fallback ==
    IF C22_HighScore = {} THEN PLACEHOLDER_TITLE
    ELSE LET first == CHOOSE k \in C22_HighScore :
                         \A j \in C22_HighScore :
                            \/ text_lines[k].page < text_lines[j].page
                            \/ /\ text_lines[k].page = text_lines[j].page
                               /\ text_lines[k].y_pos < text_lines[j].y_pos
                            \/ /\ text_lines[k].page = text_lines[j].page
                               /\ text_lines[k].y_pos = text_lines[j].y_pos
                               /\ k <= j
         IN Strip(text_lines[first].text)

\* a run of process_pdf that has returned a title
C22_TitleReturned == pc = "done" /\ ~failed /\ "title" \in completed

\* C22: whenever the text assembled from the first-page candidates in the top
\* 200 units is not accepted (empty, shorter than 5 characters, a bare number
\* or a match of a non-content pattern), extract_title returns the text of the
\* first line in (page, top y) order whose score is greater than 85, and the
\* placeholder only when no line has such a score.
C22_TitleFallback ==
    (C22_TitleReturned /\ C22_Rejected) => result.title = C22_Fallback

\* the same when the first page has no line of more than 3 characters, or has
\* candidates in the top 200 units
C22_TitleFallbackWithCandidates ==
    (/\ C22_TitleReturned /\ C22_Rejected
     /\ \/ Len(C22_Candidates) > 0
        \/ \A k \in 1..Len(text_lines) :
              text_lines[k].page # 1 \/ Len(Strip(text_lines[k].text)) <= 3)
        => result.title = C22_Fallback

\* the lines of a document that has been extracted
C23_Extracted == pc # "idle" /\ "extract" \in completed

\* the mean of the font sizes of the spans of the document, as num/den
C23_Mean == AvgDocFontSize(CurrentDoc)

\* the part of the score of a line that is not due to the other components:
\* the first-page bonus
C23_Bonus(l) ==
    l.heading_score
    - (ScoreSum(l, C23_Mean, PageWidthOf(Self, l.page - 1)) - FirstPageScore(l, C23_Mean))

\* the modal font size of the line records
C23_Modal == analyze_font_statistics(text_lines).body_font_size

\* C23, as stated: the first-page bonus of 25 is granted exactly when the line
\* is on page 1, its top y is below 120 and its font size is at least 1.8 times
\* the modal font size of the surviving lines.
C23_BonusFromModalSize ==
    C23_Extracted =>
        \A k \in 1..Len(text_lines) :
            LET l == text_lines[k]
            IN C23_Bonus(l) = IF /\ l.page = 1 /\ l.y_pos < 120
                                 /\ 10 * l.font_size >= 18 * C23_Modal
                              THEN 25 ELSE 0

\* C23, amended: the bonus of 25 is granted exactly when the line is on page 1,
\* its top y is below 120 and its font size is at least 1.8 times the mean font
\* size of the spans of the document.
C23_BonusFromMeanSize ==
    C23_Extracted =>
        \A k \in 1..Len(text_lines) :
            LET l == text_lines[k]
            IN C23_Bonus(l) = IF /\ l.page = 1 /\ l.y_pos < 120
                                 /\ 10 * l.font_size * C23_Mean.den >= 18 * C23_Mean.num
                              THEN 25 ELSE 0

\* a line at the top of page 1 whose font is 1.8 times the modal size but not
\* 1.8 times the mean, without the bonus
C23_Witness ==
    /\ C23_Extracted
    /\ \E k \in 1..Len(text_lines) :
          LET l == text_lines[k]
          IN /\ l.page = 1 /\ l.y_pos < 120
             /\ 10 * l.font_size >= 18 * C23_Modal
             /\ 10 * l.font_size * C23_Mean.den < 18 * C23_Mean.num
             /\ C23_Bonus(l) = 0

\* a line at the top of page 1 with the bonus
C23_WitnessGranted ==
    /\ C23_Extracted
    /\ \E k \in 1..Len(text_lines) :
          text_lines[k].page = 1 /\ text_lines[k].y_pos = 119 /\ C23_Bonus(text_lines[k]) = 25

\* the part of the score of a line that is due to the whitespace around it
C24_Contribution(l) ==
    l.heading_score
    - (ScoreSum(l, C23_Mean, PageWidthOf(Self, l.page - 1)) - WhitespaceScore(l, C23_Mean))

\* the distance from the bottom of the k-th line to the top of the line after it
\* on its page, 0 when it is the last line of the page
C24_WhitespaceBelow(k) ==
    IF k < Len(text_lines) /\ text_lines[k + 1].page = text_lines[k].page
    THEN Max2(0, text_lines[k + 1].bbox[2] - text_lines[k].bbox[4])
    ELSE 0

\* +15, +10, +5 or 0 for whitespace w above 2.5, 1.5 or 0.8 times the body size
C24_Tier(w, body) ==
    IF 10 * w * body.den > 25 * body.num THEN 15
    ELSE IF 10 * w * body.den > 15 * body.num THEN 10
    ELSE IF 10 * w * body.den > 8 * body.num THEN 5
    ELSE 0

\* C24: the whitespace contribution of a line is computed from the sum of the
\* whitespace above it and the whitespace below it (the distance to the next
\* line): +15, +10 or +5 when the sum exceeds 2.5, 1.5 or 0.8 times the body
\* size, else 0.
C24_CombinedWhitespace ==
    C23_Extracted =>
        \A k \in 1..Len(text_lines) :
            C24_Contribution(text_lines[k]) =
                C24_Tier(text_lines[k].whitespace_above + C24_WhitespaceBelow(k), C23_Mean)

\* what the records give: the contribution follows from the whitespace above
\* alone, so lines with equal whitespace above receive equal contributions
C24_WhitespaceAboveOnly ==
    C23_Extracted =>
        \A k \in 1..Len(text_lines) :
            C24_Contribution(text_lines[k]) = C24_Tier(text_lines[k].whitespace_above, C23_Mean)

\* the positions in C17_Sorted of the lines of the j-th returned heading
C25_LinesOf(j) ==
    {i \in 1..Len(C17_Sorted) : C17_Sorted[C17_StartOf(i)].seq_idx = C17_Merged[j].seq_idx}

C25_WitnessMerged ==
    /\ call.op = "merge_multiline_headings" /\ call.state = "returned"
    /\ Len(C17_Sorted) = 3
    /\ \E j \in 1..Len(C17_Merged) :
          /\ Cardinality(C25_LinesOf(j)) >= 2
          /\ ~C17_Sorted[1].is_bold /\ C17_Sorted[2].is_bold /\ 2 \in C25_LinesOf(j)
          /\ 1 \in C25_LinesOf(j)

====
